---- MODULE Spec2Model ----
(***************************************************************************)
(* Model of the opselect options analytics: the three yield-ranking        *)
(* computations (topPuts and topYields of src/src/App.tsx, yieldRows of    *)
(* src/unnamed/part_005), the strike window selection of the options       *)
(* handlers (src/api/options.js, src/unnamed/part_003), the Polygon        *)
(* handler over a snapshot of several expiries, the rows memo of the chain *)
(* view, and runFlow of src/src/App.tsx with the controls that start it.   *)
(*                                                                         *)
(* Numbers.  Prices (strike, bid, ask, last, spot) are whole currency      *)
(* units.  Every other real (IV, probability, time in years, yield, d2)    *)
(* is a fixed-point number with ONE = 1.0, so 0.25 is 2500.  Times are     *)
(* whole hours: DAY hours stand for the 86400000 ms of the source.         *)
(* A field the JSON leaves out (null / undefined) is NULL; the IEEE values *)
(* the arithmetic of the source can produce from a strike <= 0 are NaN,    *)
(* PosInf and NegInf.  These four are integers outside every value range   *)
(* of the model and are never used in arithmetic: each operator below      *)
(* tests for them first, as IEEE-754 and the typeof / isFinite tests of    *)
(* the source prescribe.                                                   *)
(***************************************************************************)
EXTENDS Integers, Sequences, FiniteSets, TLC

ONE    == 10 * 1000
NULL   == 0 - 2000000000
NaN    == 0 - 2000000001
PosInf == 0 - 2000000002
NegInf == 0 - 2000000003

IsNumber(v) == v # NULL                       \* typeof v === "number"
isFinite(v) == v \notin {NULL, NaN, PosInf, NegInf}  \* isFinite(v ?? NaN)

Max(a, b) == IF a >= b THEN a ELSE b
Min(a, b) == IF a <= b THEN a ELSE b
Abs(a)    == IF a < 0 THEN 0 - a ELSE a

\* integer division rounding to nearest (the fixed-point rounding of a real quotient)
RDiv(a, b) ==
  LET q == (Abs(a) + Abs(b) \div 2) \div Abs(b)
  IN  IF (a < 0) = (b < 0) THEN q ELSE 0 - q

FMul(a, b) == RDiv(a * b, ONE)      \* a * b   of two fixed-point numbers
FDiv(a, b) == RDiv(a * ONE, b)      \* a / b   of two fixed-point numbers

(* ---------------- Math.sqrt, Math.exp, Math.log in fixed point ---------- *)

RECURSIVE SqrtIter(_, _, _)
SqrtIter(n, g, k) ==
  IF k = 0 \/ g = 0 THEN g
  ELSE LET h == (g + n \div g) \div 2
       IN  IF h >= g THEN g ELSE SqrtIter(n, h, k - 1)

\* Math.sqrt(x) for a fixed-point x >= 0: floor(sqrt(x * ONE)) by Newton's iteration
Sqrt(x) == IF x <= 0 THEN 0 ELSE SqrtIter(x * ONE, x * ONE, 40)

LN2 == 6931 + 0     \* Math.LN2 = 0.6931...

RECURSIVE ExpTaylor(_, _, _, _)
ExpTaylor(r, term, n, acc) ==
  IF n > 7 \/ term = 0 THEN acc
  ELSE LET t == RDiv(term * r, n * ONE)
       IN  ExpTaylor(r, t, n + 1, acc + t)

RECURSIVE Pow2(_)
Pow2(k) == IF k <= 0 THEN 1 ELSE 2 * Pow2(k - 1)

\* Math.exp(x) for a fixed-point x: x = k*ln2 + r, exp(x) = 2^k * exp(r).
\* Below -14 the result is under the fixed-point resolution and is 0.
Exp(x) ==
  IF x < 0 - 14 * ONE THEN 0
  ELSE LET k == IF x >= 0 THEN x \div LN2 ELSE 0 - ((LN2 - 1 - x) \div LN2)
           r == x - k * LN2
           e == ExpTaylor(r, ONE, 1, ONE)
       IN  IF k >= 0 THEN e * Pow2(k) ELSE RDiv(e, Pow2(0 - k))

RECURSIVE LogReduce(_, _)
\* brings m into [0.75, 1.5) and counts the powers of two taken out
LogReduce(m, k) ==
  IF m >= (3 * ONE) \div 2 THEN LogReduce(RDiv(m, 2), k + 1)
  ELSE IF m < (3 * ONE) \div 4 THEN LogReduce(m * 2, k - 1)
  ELSE <<m, k>>

\* atanh(z) = z + z^3/3 + z^5/5 + z^7/7, the powers handed on as they are formed
AtanhTerms(z, z2, z3, z5) == z + RDiv(z3, 3) + RDiv(z5, 5) + RDiv(FMul(z5, z2), 7)
AtanhCube(z, z2, z3) == AtanhTerms(z, z2, z3, FMul(z3, z2))
AtanhSquare(z, z2) == AtanhCube(z, z2, FMul(z2, z))
Atanh(z) == AtanhSquare(z, FMul(z, z))

\* ln(m * 2^k) for mk = <<m, k>>: ln(m) = 2*atanh((m-1)/(m+1))
LogOf(mk) == mk[2] * LN2 + 2 * Atanh(FDiv(mk[1] - ONE, mk[1] + ONE))

\* Math.log(x) for a fixed-point x > 0
Log(x) == LogOf(LogReduce(x, 0))

(* ---------------- Normal CDF / erf --------------------------------------- *)

\* erf: Abramowitz-Stegun 7.1.26; x is a fixed-point number, NaN, PosInf or NegInf.
\* sign = x < 0 ? -1 : 1 (NaN < 0 is false); t = 1/(1 + p*|x|) is 0 for an
\* infinite x and NaN for NaN, and NaN propagates to the result.
ErfPoly(t) ==
  FMul(FMul(FMul(FMul(FMul(10614, t) - 14532, t) + 14214, t) - 2845, t) + 2548, t)

\* y = 1 - poly(t) * exp(-ax * ax) for ax = |x|
ErfAbs(ax) ==
  ONE - FMul(ErfPoly(FDiv(ONE, ONE + FMul(3276, ax))),
             IF ax > 4 * ONE THEN 0 ELSE Exp(0 - FMul(ax, ax)))

erf(x) ==
  IF x = NaN THEN NaN
  ELSE IF x = PosInf THEN ONE
  ELSE IF x = NegInf THEN 0 - ONE
  ELSE (IF x < 0 THEN 0 - 1 ELSE 1) * ErfAbs(Abs(x))

\* x / Math.SQRT2
DivSqrt2(x) == IF x \in {NaN, PosInf, NegInf} THEN x
               ELSE IF Abs(x) > 20 * ONE THEN (IF x < 0 THEN NegInf ELSE PosInf)
               ELSE RDiv(x * ONE, 14142)

\* 0.5 * (1 + e)
HalfOnePlus(e) == IF e = NaN THEN NaN ELSE RDiv(ONE + e, 2)

normCdf(x) == HalfOnePlus(erf(DivSqrt2(x)))

Neg(x) == IF x = NaN THEN NaN
          ELSE IF x = PosInf THEN NegInf
          ELSE IF x = NegInf THEN PosInf
          ELSE 0 - x


(* ---------------- Types and constants ------------------------------------ *)

PX == 10 * 10                 \* one currency unit, in the hundredths prices are kept in
DAY == 24                     \* 86400000 ms, in hours
YEAR_DAYS == 365
DTE_BUCKETS == <<7, 14, 21, 30>>
MIN_PROB_OTM == 60            \* %
DEFAULT_RISK_FREE == 400      \* r = 0.04
DEFAULT_DIVIDEND_YIELD == 0   \* q = 0.0
TOP_N == 10                   \* .slice(0, 10)

\* OptionSide / ChainLeg: one contract. iv is a percentage in the App (24.5 is
\* 24.5 * ONE) and a decimal in part_005 (0.245 is 2450).
OptionSide(type, strike, bid, ask, last, iv) ==
  [type |-> type, strike |-> strike, bid |-> bid, ask |-> ask, last |-> last, iv |-> iv]

ExpirySlice(expiry, options) == [expiry |-> expiry, options |-> options]

(* ---------------- Utils --------------------------------------------------- *)

\* Math.ceil(n / d), d > 0
CeilDiv(n, d) == 0 - ((0 - n) \div d)
\* Math.round(n / d), d > 0: floor(n/d + 1/2)
RoundDiv(n, d) == (2 * n + d) \div (2 * d)

daysBetween(a, b) == Max(0, CeilDiv(b - a, DAY))

uniqKey(r) == <<r.side, r.expiry, r.strike>>

\* stable sort of a sequence of rows, descending by the field key; PosInf is the
\* greatest value
KeyLess(a, b) == IF a = PosInf THEN FALSE ELSE IF b = PosInf THEN TRUE ELSE a < b

\* an insertion that is not stable: a row goes before the rows of equal key
RECURSIVE InsertDesc_tiesFirst(_, _, _, _)
InsertDesc_tiesFirst(sorted, r, key, i) ==
  IF i > Len(sorted) THEN Append(sorted, r)
  ELSE IF ~KeyLess(r[key], sorted[i][key])
       THEN SubSeq(sorted, 1, i - 1) \o <<r>> \o SubSeq(sorted, i, Len(sorted))
       ELSE InsertDesc_tiesFirst(sorted, r, key, i + 1)

RECURSIVE InsertDesc(_, _, _, _)
InsertDesc(sorted, r, key, i) ==
  IF i > Len(sorted) THEN Append(sorted, r)
  ELSE IF KeyLess(sorted[i][key], r[key])
       THEN SubSeq(sorted, 1, i - 1) \o <<r>> \o SubSeq(sorted, i, Len(sorted))
       ELSE InsertDesc(sorted, r, key, i + 1)

RECURSIVE SortDescFrom(_, _, _, _)
SortDescFrom(rows, key, i, acc) ==
  IF i > Len(rows) THEN acc
  ELSE SortDescFrom(rows, key, i + 1, InsertDesc(acc, rows[i], key, 1))

SortDesc(rows, key) == SortDescFrom(rows, key, 1, <<>>)

slice(rows, n) == SubSeq(rows, 1, Min(n, Len(rows)))

RECURSIVE Concat(_)
Concat(ss) == IF ss = <<>> THEN <<>> ELSE Head(ss) \o Concat(Tail(ss))

(* ---------------- App.tsx: yield goal, probability, IV interpolation ------ *)

\* the step table with its upper boundary a day late (dte = 22 falls to 0.30):
\* a table the yield-goal property must tell from the one below
yieldGoalByDTE_late(dte) ==
  IF dte >= 23 /\ dte <= 31 THEN 4000
  ELSE IF dte >= 15 /\ dte <= 22 THEN 3000
  ELSE IF dte >= 8 /\ dte <= 14 THEN 1800
  ELSE 900

\* percent values: 0.40 is 0.40 %
yieldGoalByDTE(dte) ==
  IF dte >= 22 /\ dte <= 31 THEN 4000
  ELSE IF dte >= 15 /\ dte <= 21 THEN 3000
  ELSE IF dte >= 8 /\ dte <= 14 THEN 1800
  ELSE 900

\* [S, K, ivFrac, Tyears].every(v => typeof v === "number" && v > 0)
AllPositive(S, K, ivFrac, Tyears) ==
  \A v \in {S, K, ivFrac, Tyears} : IsNumber(v) /\ v # NaN /\ v # NegInf /\ (v = PosInf \/ v > 0)

\* d2 = (log(ratio) - 0.5*sigma^2*T) / (sigma*sqrt(T)), ratio a fixed-point number > 0
D2(ratio, sigma, T) ==
  FDiv(Log(ratio) - RDiv(FMul(FMul(sigma, sigma), T), 2), FMul(sigma, Sqrt(T)))

\* side === "call" ? normCdf(-d2) : normCdf(d2)
ProbOfD2(side, d2) == normCdf(IF side = "call" THEN Neg(d2) ELSE d2)

\* forward-based probability of finishing OTM (topPuts); a fraction, or NULL
probOTM_forward(side, S, K, ivFrac, Tyears, r, q) ==
  IF ~AllPositive(S, K, ivFrac, Tyears) THEN NULL
  ELSE
    LET sigma == Max(ivFrac, 100)
        T     == Max(Tyears, RDiv(ONE, YEAR_DAYS))
        F     == S * Exp(FMul(r - q, T))
    IN  ProbOfD2(side, D2(RDiv(F, K), sigma, T))

\* spot-based probability of finishing OTM (topYields); a fraction, or NULL
probOTM(side, S, K, ivFrac, Tyears) ==
  IF ~AllPositive(S, K, ivFrac, Tyears) THEN NULL
  ELSE
    ProbOfD2(side, D2(RDiv(S * ONE, K), ivFrac, Tyears))

\* the valid points as {x, y}, sorted by x ascending (stable)
RECURSIVE InsertAsc(_, _, _)
InsertAsc(sorted, p, i) ==
  IF i > Len(sorted) THEN Append(sorted, p)
  ELSE IF p.x < sorted[i].x
       THEN SubSeq(sorted, 1, i - 1) \o <<p>> \o SubSeq(sorted, i, Len(sorted))
       ELSE InsertAsc(sorted, p, i + 1)

RECURSIVE SortedPts(_, _, _, _)
SortedPts(S, points, i, acc) ==
  IF i > Len(points) THEN acc
  ELSE LET p == points[i]
       IN  IF isFinite(p.K) /\ p.K > 0 /\ isFinite(p.ivFrac) /\ p.ivFrac > 0
           THEN SortedPts(S, points, i + 1,
                          InsertAsc(acc, [x |-> Log(RDiv(p.K * ONE, S)), y |-> p.ivFrac], 1))
           ELSE SortedPts(S, points, i + 1, acc)

\* the linear segment loop: the first i with pts[i-1].x <= tx <= pts[i].x
RECURSIVE Segment(_, _, _, _)
Segment(pts, tx, i, none) ==
  IF i > Len(pts) THEN none
  ELSE LET L == pts[i - 1]
           R == pts[i]
       IN  IF tx >= L.x /\ tx <= R.x
           THEN L.y + FMul(FDiv(tx - L.x, R.x - L.x), R.y - L.y)
           ELSE Segment(pts, tx, i + 1, none)

\* Math.abs(p.x - tx) < 1e-12: below the fixed-point resolution, so equality
ExactAt(pts, tx) == {i \in 1..Len(pts) : pts[i].x = tx}

\* the search with its two clamps exchanged: the far end instead of the near one
InterpAt_farEnd(pts, tx, none) ==
  IF ExactAt(pts, tx) # {} THEN pts[CHOOSE i \in ExactAt(pts, tx) :
                                      \A j \in ExactAt(pts, tx) : i <= j].y
  ELSE IF tx <= pts[1].x THEN pts[Len(pts)].y
  ELSE IF tx >= pts[Len(pts)].x THEN pts[1].y
  ELSE Segment(pts, tx, 2, none)

\* the search of the sorted points pts (not empty) for log-moneyness tx: the exact
\* match, the clamps, the segment loop, and none when the loop ends without a segment
InterpAt(pts, tx, none) ==
  IF ExactAt(pts, tx) # {} THEN pts[CHOOSE i \in ExactAt(pts, tx) :
                                      \A j \in ExactAt(pts, tx) : i <= j].y
  ELSE IF tx <= pts[1].x THEN pts[1].y
  ELSE IF tx >= pts[Len(pts)].x THEN pts[Len(pts)].y
  ELSE Segment(pts, tx, 2, none)

\* interpolateIV_logMoneyness of App.tsx past the sort of its points
InterpPts(S, pts, targetK) ==
  IF Len(pts) = 0 \/ ~isFinite(targetK) \/ targetK <= 0 THEN NULL
  ELSE InterpAt(pts, Log(RDiv(targetK * ONE, S)), NULL)

\* interpolateIV_logMoneyness of App.tsx: an IV fraction, or NULL
interpolateIV_logMoneyness(S, points, targetK) ==
  InterpPts(S, SortedPts(S, points, 1, <<>>), targetK)

(* ---------------- App.tsx: expiry selection -------------------------------- *)

\* expiries.map(ex => ({ex, dte: daysBetween(now, Date.parse(ex.expiry))}))
ExpDte(expiries, now) ==
  [i \in 1..Len(expiries) |-> [ex |-> expiries[i], dte |-> daysBetween(now, expiries[i].expiry)]]

\* the loop with `diff <= best.diff`: of the slices that tie, the last one wins
RECURSIVE NearestFrom_lastTie(_, _, _, _)
NearestFrom_lastTie(expDte, target, i, best) ==
  IF i > Len(expDte) THEN best
  ELSE LET diff == Abs(expDte[i].dte - target)
       IN  IF best = 0 \/ diff <= Abs(expDte[best].dte - target)
           THEN NearestFrom_lastTie(expDte, target, i + 1, i)
           ELSE NearestFrom_lastTie(expDte, target, i + 1, best)

\* the inner loop over expDte for one target: best is 0 (null) or an index
RECURSIVE NearestFrom(_, _, _, _)
NearestFrom(expDte, target, i, best) ==
  IF i > Len(expDte) THEN best
  ELSE LET diff == Abs(expDte[i].dte - target)
       IN  IF best = 0 \/ diff < Abs(expDte[best].dte - target)
           THEN NearestFrom(expDte, target, i + 1, i)
           ELSE NearestFrom(expDte, target, i + 1, best)

\* nearestByBucket.get(target): an index into expDte, 0 when there is none
nearestByBucket(expDte, target) == NearestFrom(expDte, target, 1, 0)

(* ---------------- App.tsx: topPuts ---------------------------------------- *)

ValidIvObs(o) == IsNumber(o.strike) /\ o.strike > 0 /\ IsNumber(o.iv) /\ o.iv > 0

RECURSIVE SumSeq(_)
SumSeq(q) == IF q = <<>> THEN 0 ELSE Head(q) + SumSeq(Tail(q))

\* the observations o.iv / 100 of one strike, in slice order
RECURSIVE IvObsAt(_, _)
IvObsAt(options, K) ==
  IF options = <<>> THEN <<>>
  ELSE LET o == Head(options)
       IN  (IF ValidIvObs(o) /\ o.strike = K THEN <<RDiv(o.iv, 100)>> ELSE <<>>)
           \o IvObsAt(Tail(options), K)

\* the keys of tmp in insertion order
RECURSIVE IvStrikes(_, _)
IvStrikes(options, seen) ==
  IF options = <<>> THEN <<>>
  ELSE LET o == Head(options)
       IN  IF ValidIvObs(o) /\ o.strike \notin seen
           THEN <<o.strike>> \o IvStrikes(Tail(options), seen \cup {o.strike})
           ELSE IvStrikes(Tail(options), seen)

\* ivPoints of one expiry: one point per strike, the mean of its observations
ivPoints(options) ==
  LET ks == IvStrikes(options, {})
  IN  [i \in 1..Len(ks) |->
         LET arr == IvObsAt(options, ks[i])
         IN  [K |-> ks[i], ivFrac |-> RDiv(SumSeq(arr), Len(arr))]]

\* the IV used for one put: its own, else interpolated; a fraction or NULL
ResolveIvPut(o, uPrice, points) ==
  IF IsNumber(o.iv) /\ o.iv > 0 THEN RDiv(o.iv, 100)
  ELSE interpolateIV_logMoneyness(uPrice, points, o.strike)

\* the filters of topPuts on a contract of a slice
PassesPut(o, uPrice) ==
  /\ o.type = "put"
  /\ IsNumber(o.bid) /\ o.bid > 0
  /\ IsNumber(o.strike) /\ o.strike > 0
  /\ o.strike < uPrice

\* the row pushed to putsAll, from the values the loop body has computed
PutRowOf(o, near, ivFrac, p, yieldPct, yieldGoalPct) ==
  [strike |-> o.strike, bid |-> o.bid, yieldPct |-> yieldPct,
   probOTM |-> p * 100, yieldGoalPct |-> yieldGoalPct,
   vsGoalBps |-> (yieldPct - yieldGoalPct) * 100,
   dte |-> near.dte,
   iv |-> IF IsNumber(o.iv) /\ o.iv > 0 THEN o.iv ELSE ivFrac * 100,
   expiry |-> near.ex.expiry, side |-> o.type,
   o |-> o, ivFrac |-> ivFrac]

\* the loop body from the probability p on
PutRowProb(o, near, ivFrac, p) ==
  IF p = NULL THEN <<>>
  ELSE IF p * 100 < MIN_PROB_OTM * ONE THEN <<>>
  ELSE << PutRowOf(o, near, ivFrac, p, RDiv(o.bid * ONE * 100, o.strike),
                   yieldGoalByDTE(near.dte)) >>

\* the loop body from the resolved IV on
PutRowIv(o, near, Tyears, uPrice, ivFrac) ==
  IF ivFrac = NULL \/ ~isFinite(ivFrac) \/ ivFrac <= 0 THEN <<>>
  ELSE PutRowProb(o, near, ivFrac,
                  probOTM_forward(o.type, uPrice, o.strike, ivFrac, Tyears,
                                  DEFAULT_RISK_FREE, DEFAULT_DIVIDEND_YIELD))

\* the loop body of topPuts for one contract: <<row>> or <<>> (continue)
PutRow(o, near, Tyears, uPrice, points) ==
  IF ~PassesPut(o, uPrice) THEN <<>>
  ELSE PutRowIv(o, near, Tyears, uPrice, ResolveIvPut(o, uPrice, points))

RECURSIVE PutRows(_, _, _, _, _)
PutRows(options, near, Tyears, uPrice, points) ==
  IF options = <<>> THEN <<>>
  ELSE PutRow(Head(options), near, Tyears, uPrice, points)
       \o PutRows(Tail(options), near, Tyears, uPrice, points)

\* Math.max(1 / 365, dte / 365)
TyearsOf(dte) == Max(RDiv(ONE, YEAR_DAYS), RDiv(dte * ONE, YEAR_DAYS))

\* putsAll: the rows of the slice nearest to each bucket, bucket by bucket
putsAll(expiries, uPrice, now) ==
  LET expDte == ExpDte(expiries, now)
  IN  Concat([b \in 1..Len(DTE_BUCKETS) |->
        LET n == nearestByBucket(expDte, DTE_BUCKETS[b])
        IN  IF n = 0 THEN <<>>
            ELSE PutRows(expDte[n].ex.options, expDte[n], TyearsOf(expDte[n].dte),
                         uPrice, ivPoints(expDte[n].ex.options))])

\* keeps the first row of each uniqKey
RECURSIVE dedupe(_, _)
dedupe(arr, seen) ==
  IF arr = <<>> THEN <<>>
  ELSE IF uniqKey(Head(arr)) \in seen THEN dedupe(Tail(arr), seen)
  ELSE <<Head(arr)>> \o dedupe(Tail(arr), seen \cup {uniqKey(Head(arr))})

\* out.sort((a, b) => b.yieldPct - a.yieldPct).slice(0, 10)
Ranked(rows) == slice(SortDesc(rows, "yieldPct"), TOP_N)

\* the value of the topPuts memo: null, or the ranked puts
TopPuts(expiries, uPrice, now) ==
  IF Len(expiries) = 0 \/ uPrice = NULL THEN [null |-> TRUE, rows |-> <<>>]
  ELSE [null |-> FALSE, rows |-> Ranked(dedupe(putsAll(expiries, uPrice, now), {}))]

(* ---------------- App.tsx: topYields --------------------------------------- *)

\* the filters of topYields on a contract of a slice
PassesYield(o, uPrice) ==
  /\ IsNumber(o.bid) /\ IsNumber(o.strike) /\ o.strike > 0
  /\ IsNumber(o.iv) /\ o.iv > 0
  /\ (o.type = "call" => o.strike > uPrice)
  /\ (o.type = "put" => o.strike < uPrice)

\* the loop body of topYields for one contract: <<row>> or <<>> (continue).
\* netGamma and delta are display fields no filter reads; they are left out.
YieldRowProb(o, near, p) ==
  IF p = NULL THEN <<>>
  ELSE IF p * 100 < MIN_PROB_OTM * ONE THEN <<>>
  ELSE << [strike |-> o.strike, bid |-> o.bid,
           yieldPct |-> RDiv(o.bid * ONE * 100, o.strike),
           probOTM |-> p * 100, dte |-> near.dte, iv |-> o.iv,
           expiry |-> near.ex.expiry, side |-> o.type,
           o |-> o, ivFrac |-> RDiv(o.iv, 100)] >>

YieldRow(o, near, Tyears, uPrice) ==
  IF ~PassesYield(o, uPrice) THEN <<>>
  ELSE YieldRowProb(o, near, probOTM(o.type, uPrice, o.strike, RDiv(o.iv, 100), Tyears))

RECURSIVE YieldRowsOf(_, _, _, _)
YieldRowsOf(options, near, Tyears, uPrice) ==
  IF options = <<>> THEN <<>>
  ELSE YieldRow(Head(options), near, Tyears, uPrice)
       \o YieldRowsOf(Tail(options), near, Tyears, uPrice)

\* callsAll and putsAll together, in push order
yieldsAll(expiries, uPrice, now) ==
  LET expDte == ExpDte(expiries, now)
  IN  Concat([b \in 1..Len(DTE_BUCKETS) |->
        LET n == nearestByBucket(expDte, DTE_BUCKETS[b])
        IN  IF n = 0 THEN <<>>
            ELSE YieldRowsOf(expDte[n].ex.options, expDte[n], TyearsOf(expDte[n].dte), uPrice)])

OfSide(rows, side) == SelectSeq(rows, LAMBDA r : r.side = side)

\* callsTop and putsTop of the rows pushed to callsAll and putsAll
TopOfSides(all) ==
  [null |-> FALSE,
   callsTop |-> Ranked(dedupe(OfSide(all, "call"), {})),
   putsTop  |-> Ranked(dedupe(OfSide(all, "put"), {}))]

\* the value of the topYields memo: null, or {callsTop, putsTop}
TopYields(expiries, uPrice, now) ==
  IF Len(expiries) = 0 \/ uPrice = NULL
  THEN [null |-> TRUE, callsTop |-> <<>>, putsTop |-> <<>>]
  ELSE TopOfSides(yieldsAll(expiries, uPrice, now))

(* ---------------- part_005: pricing, interpolation, yield goal ------------- *)

\* decimal values: 0.004 is 0.40 %
yieldGoalByDTE_dec(dte) ==
  IF dte >= 22 /\ dte <= 31 THEN 40
  ELSE IF dte >= 15 /\ dte <= 21 THEN 30
  ELSE IF dte >= 8 /\ dte <= 14 THEN 18
  ELSE 9

riskFreeRateAnnual(Tyrs) == DEFAULT_RISK_FREE

\* Math.log(F / K) for F > 0: +Infinity at K = 0, NaN at K < 0
LogRatio(F, K) ==
  IF K = 0 THEN PosInf
  ELSE IF K < 0 THEN NaN
  ELSE Log(RDiv(F, K))

\* d2_forward: a fixed-point number, NaN, PosInf or NegInf; it has no guard
D2OfLog(lg, sigma, TT) ==
  IF lg \in {NaN, PosInf, NegInf} THEN lg
  ELSE FDiv(lg - RDiv(FMul(FMul(sigma, sigma), TT), 2), FMul(sigma, Sqrt(TT)))

D2OfT(S, K, sigma, TT, r, q) == D2OfLog(LogRatio(S * Exp(FMul(r - q, TT)), K), sigma, TT)

d2_forward(S, K, T, iv, r, q) == D2OfT(S, K, Max(iv, 100), Max(T, RDiv(ONE, YEAR_DAYS)), r, q)

probOTM_forwardD2(S, K, Tyrs, iv, r, q, type) ==
  ProbOfD2(type, d2_forward(S, K, Tyrs, iv, r, q))

\* d1 of bsDelta: as d2_forward with the half variance added
D1OfLog(lg, sigma, TT) ==
  IF lg \in {NaN, PosInf, NegInf} THEN lg
  ELSE FDiv(lg + RDiv(FMul(FMul(sigma, sigma), TT), 2), FMul(sigma, Sqrt(TT)))

\* Math.exp(-q * TT) * N(d1)
CallDelta(disc, d1) ==
  IF normCdf(d1) = NaN THEN NaN ELSE FMul(disc, normCdf(d1))

\* a put delta in which the discount of the dividend yield is left out
DeltaOf_undiscounted(callDelta, disc, type) ==
  IF callDelta = NaN THEN NaN
  ELSE IF type = "call" THEN callDelta ELSE callDelta - ONE

\* type === "call" ? callDelta : callDelta - Math.exp(-q * TT)
DeltaOf(callDelta, disc, type) ==
  IF callDelta = NaN THEN NaN
  ELSE IF type = "call" THEN callDelta ELSE callDelta - disc

DeltaOfT(S, K, sigma, TT, r, q, type) ==
  DeltaOf(CallDelta(Exp(0 - FMul(q, TT)),
                    D1OfLog(LogRatio(S * Exp(FMul(r - q, TT)), K), sigma, TT)),
          Exp(0 - FMul(q, TT)), type)

\* bsDelta of part_005: the Black-Scholes delta under a dividend yield q
bsDelta(S, K, T, iv, r, q, type) ==
  DeltaOfT(S, K, Max(iv, 100), Max(T, RDiv(ONE, YEAR_DAYS)), r, q, type)

\* the valid points of part_005 as {x, y}, sorted by x ascending (stable)
RECURSIVE SortedPts_dec(_, _, _, _)
SortedPts_dec(S, pts, i, acc) ==
  IF i > Len(pts) THEN acc
  ELSE LET p == pts[i]
       IN  IF isFinite(p.K) /\ p.K > 0 /\ isFinite(p.iv) /\ p.iv > 0
           THEN SortedPts_dec(S, pts, i + 1,
                              InsertAsc(acc, [x |-> Log(RDiv(p.K * ONE, S)), y |-> p.iv], 1))
           ELSE SortedPts_dec(S, pts, i + 1, acc)

\* interpolateIV_logMoneyness of part_005: no guard on targetK, and pts[0].y
\* where the App returns null. tx is NegInf at targetK = 0, NaN below, and
\* Infinity at targetK = Infinity.
InterpPts_dec(S, pts, targetK) ==
  IF Len(pts) = 0 THEN NULL
  ELSE IF targetK = PosInf THEN pts[Len(pts)].y              \* tx >= every x
  ELSE IF targetK = NULL \/ targetK < 0 THEN pts[1].y       \* tx is NaN: every test fails
  ELSE IF targetK = 0 THEN pts[1].y                          \* tx = -Infinity <= pts[0].x
  ELSE InterpAt(pts, Log(RDiv(targetK * ONE, S)), pts[1].y)

interpolateIV_dec(S, points, targetK) ==
  InterpPts_dec(S, SortedPts_dec(S, points, 1, <<>>), targetK)

(* ---------------- part_005: yieldRows --------------------------------------- *)

\* ChainLeg: a contract with its expiry; iv is a decimal
ChainLeg(o, expiry, iv) ==
  [type |-> o.type, strike |-> o.strike, expiry |-> expiry, last |-> o.last,
   bid |-> o.bid, ask |-> o.ask, iv |-> iv]

\* the keys of chainByExpiry in insertion order
RECURSIVE ExpiryKeys(_, _)
ExpiryKeys(chain, seen) ==
  IF chain = <<>> THEN <<>>
  ELSE IF Head(chain).expiry \in seen THEN ExpiryKeys(Tail(chain), seen)
  ELSE <<Head(chain).expiry>> \o ExpiryKeys(Tail(chain), seen \cup {Head(chain).expiry})

\* chainByExpiry.get(expiry)
LegsOf(chain, expiry) == SelectSeq(chain, LAMBDA leg : leg.expiry = expiry)

\* legs.filter(strike and iv finite and > 0).map(x => ({K, iv}))
ivPoints_dec(legs) ==
  LET ok == SelectSeq(legs, LAMBDA x : isFinite(x.strike) /\ x.strike > 0
                                       /\ isFinite(x.iv) /\ x.iv > 0)
  IN  [i \in 1..Len(ok) |-> [K |-> ok[i].strike, iv |-> ok[i].iv]]

\* premium: prefer last, fall back to mid, else bid (?? 0)
Premium(leg) ==
  IF isFinite(leg.last) THEN leg.last
  ELSE IF isFinite(leg.bid) /\ isFinite(leg.ask) THEN RDiv(leg.bid + leg.ask, 2)
  ELSE IF leg.bid = NULL THEN 0 ELSE leg.bid

\* IV selection: per-strike if valid, else interpolated, else 0.25
IvOr(interp) ==
  IF interp # NULL /\ interp # 0 /\ isFinite(interp) /\ interp > 0 THEN interp ELSE 2500

IvUsed(leg, spot, points) ==
  IF isFinite(leg.iv) /\ leg.iv > 0 THEN leg.iv
  ELSE IvOr(interpolateIV_dec(spot, points, leg.strike))

\* premium / collateral: +Infinity when the collateral is 0 (premium > 0)
YieldDec(premium, collateral) ==
  IF collateral = 0 THEN PosInf ELSE RDiv(premium * ONE, collateral)

\* the loop body of yieldRows for one leg: <<row>> or <<>> (continue).
\* delta, gamma, netGamma and oi are display fields no filter reads; left out.
\* the row pushed to rows, from the values the loop body has computed
LegRowOf(leg, dte, premium, iv, probOtm, yieldDec, yieldGoal) ==
  [type |-> leg.type, strike |-> leg.strike, expiry |-> leg.expiry,
   dte |-> dte, probOtm |-> probOtm, yieldDec |-> yieldDec,
   ivUsed |-> iv, yieldGoal |-> yieldGoal,
   vsGoalBps |-> IF yieldDec = PosInf THEN PosInf ELSE (yieldDec - yieldGoal) * 10000,
   premium |-> premium, leg |-> leg]

\* the loop body from the probability on: `if (probOtm < 0.60) continue` is false for NaN
LegRowProb(leg, spot, dte, premium, iv, probOtm) ==
  IF probOtm # NaN /\ probOtm < 6000 THEN <<>>
  ELSE << LegRowOf(leg, dte, premium, iv, probOtm,
                   YieldDec(premium, IF leg.type = "put" THEN leg.strike ELSE spot),
                   yieldGoalByDTE_dec(dte)) >>

\* the loop body from the IV on
LegRowIv(leg, spot, dte, Tyrs, r, q, premium, iv) ==
  LegRowProb(leg, spot, dte, premium, iv,
             probOTM_forwardD2(spot, leg.strike, Tyrs, iv, r, q, leg.type))

\* the loop body from the premium on
LegRowPremium(leg, spot, dte, Tyrs, points, r, q, premium) ==
  IF ~isFinite(premium) \/ premium <= 0 THEN <<>>
  ELSE LegRowIv(leg, spot, dte, Tyrs, r, q, premium, IvUsed(leg, spot, points))

LegRow(leg, spot, dte, Tyrs, points, r, q) ==
  LegRowPremium(leg, spot, dte, Tyrs, points, r, q, Premium(leg))

RECURSIVE LegRows(_, _, _, _, _, _, _)
LegRows(legs, spot, dte, Tyrs, points, r, q) ==
  IF legs = <<>> THEN <<>>
  ELSE LegRow(Head(legs), spot, dte, Tyrs, points, r, q)
       \o LegRows(Tail(legs), spot, dte, Tyrs, points, r, q)

\* the rows of one expiry of chainByExpiry
ExpiryRows(chain, quote, now, expiry) ==
  LET legs == LegsOf(chain, expiry)
      dte  == Max(0, RoundDiv(expiry - now, DAY))
      Tyrs == Max(RDiv(ONE, YEAR_DAYS), RDiv((expiry - now) * ONE, YEAR_DAYS * DAY))
      q    == Max(0, IF quote.dividendYield = NULL THEN 0 ELSE quote.dividendYield)
  IN  LegRows(legs, quote.price, dte, Tyrs, ivPoints_dec(legs), riskFreeRateAnnual(Tyrs), q)

\* rows, before the sort: the rows of every expiry in the order of chainByExpiry
rowsOf(chain, quote, now) ==
  LET keys == ExpiryKeys(chain, {})
  IN  Concat([k \in 1..Len(keys) |-> ExpiryRows(chain, quote, now, keys[k])])

\* the value of the yieldRows memo; quote.null stands for quote === null
YieldRows(chain, quote, now) ==
  IF quote.null \/ Len(chain) = 0 THEN <<>>
  ELSE slice(SortDesc(rowsOf(chain, quote, now), "yieldDec"), TOP_N)

(* ---------------- api/options.js, part_003: strike window ------------------- *)

WINDOW == 50          \* sortedByDist.slice(0, 50)
LIMIT_MIN == 1        \* Math.max(1, ...)
LIMIT_MAX == 200      \* Math.min(200, ...)

\* a strike in arithmetic: null coerces to 0
StrikeNum(k) == IF k = NULL THEN 0 ELSE k

\* [...new Set(arr.map(o => o.strike))]: the distinct strikes in insertion order,
\* that is the strike of every contract no earlier contract shares it with
strikeSet(arr, seen) ==
  LET firsts == SelectSeq([i \in 1..Len(arr) |-> i],
                          LAMBDA i : /\ arr[i].strike \notin seen
                                     /\ \A j \in 1..(i - 1) : arr[j].strike # arr[i].strike)
  IN  [k \in 1..Len(firsts) |-> arr[firsts[k]].strike]

\* the sort key of a strike: its value (center = NULL), or its distance to center
SortKey(k, center) ==
  IF center = NULL THEN StrikeNum(k) ELSE Abs(StrikeNum(k) - center)

\* v put before the elements of an equal key: the sort of an engine whose
\* Array.prototype.sort reverses ties
InsertBy_tiesFirst(sorted, v, center, i) ==
  LET later == {j \in i..Len(sorted) : SortKey(v, center) <= SortKey(sorted[j], center)}
  IN  IF later = {} THEN Append(sorted, v)
      ELSE LET p == CHOOSE j \in later : \A k \in later : j <= k
           IN  SubSeq(sorted, 1, p - 1) \o <<v>> \o SubSeq(sorted, p, Len(sorted))

\* v put into the sorted array behind every element from place i on that its
\* key is not smaller than
InsertBy(sorted, v, center, i) ==
  LET later == {j \in i..Len(sorted) : SortKey(v, center) < SortKey(sorted[j], center)}
  IN  IF later = {} THEN Append(sorted, v)
      ELSE LET p == CHOOSE j \in later : \A k \in later : j <= k
           IN  SubSeq(sorted, 1, p - 1) \o <<v>> \o SubSeq(sorted, p, Len(sorted))

\* q[lo..hi] inserted one after the other into acc, the first half before the second
RECURSIVE SortByFrom(_, _, _, _, _)
SortByFrom(q, center, lo, hi, acc) ==
  IF acc = <<>> /\ lo = hi THEN <<q[lo]>>
  ELSE IF lo > hi THEN acc
  ELSE IF lo = hi THEN InsertBy(acc, q[lo], center, 1)
  ELSE SortByFrom(q, center, ((lo + hi) \div 2) + 1, hi,
                  SortByFrom(q, center, lo, (lo + hi) \div 2, acc))

\* Array.prototype.sort with comparator key(a) - key(b): stable, ascending
SortBy(q, center) == SortByFrom(q, center, 1, Len(q), <<>>)

\* strikes: the distinct strikes, ascending
strikesOf(arr) == SortBy(strikeSet(arr, {}), NULL)

\* strikes[Math.floor(strikes.length / 2)] ?? 0
medianStrike(strikes) ==
  IF Len(strikes) = 0 THEN 0 ELSE StrikeNum(strikes[(Len(strikes) \div 2) + 1])

\* the strikes left in their ascending order: an ordering the window property
\* must tell from the one below
sortedByStrike(strikes, center) == strikes

\* [...strikes].sort((a, b) => Math.abs(a - center) - Math.abs(b - center))
sortedByDist(strikes, center) ==
  SortBy(strikes, center)

\* keep = new Set(sortedByDist.slice(0, n)); arr.filter(o => keep.has(o.strike))
windowOf(arr, center, n) ==
  LET kept == slice(sortedByDist(strikesOf(arr), center), n)
      keep == {kept[i] : i \in 1..Len(kept)}
  IN  SelectSeq(arr, LAMBDA o : o.strike \in keep)

\* api/options.js: center is uPrice whenever it is a number
centerPolygon(arr, price) ==
  IF IsNumber(price) THEN price ELSE medianStrike(strikesOf(arr))

\* part_003: center is u only when it is a number > 0
centerYahoo(arr, u) ==
  IF IsNumber(u) /\ u > 0 THEN u ELSE medianStrike(strikesOf(arr))

\* Math.max(1, Math.min(200, Number(req.query.limit ?? 50))), limit an integer or absent
limitOf(q) == Max(LIMIT_MIN, Min(LIMIT_MAX, IF q = NULL THEN WINDOW ELSE q))

(* ---------------- Inputs ----------------------------------------------------- *)

BigLen == 12        \* contracts of the long slices: more than TOP_N qualify

Spot == 100 * PX

Types   == {"call", "put"}
Strikes == {0 - 5 * PX, 0, 90 * PX, 100 * PX, 110 * PX}
Bids    == {NULL, 0, 2 * PX}
Asks    == {NULL, 4 * PX}
Lasts   == {NULL, 3 * PX}
IvPcts  == {NULL, 25 * ONE, 300 * ONE}

\* every contract the field sets give
Pool == {OptionSide(t, k, b, a, l, v) :
           t \in Types, k \in Strikes, b \in Bids, a \in Asks, l \in Lasts, v \in IvPcts}

\* the second contract of a two-contract slice: a put and a call that carry an IV
\* of their own and qualify under every filter
Companions ==
  { OptionSide("put", 95 * PX, 1 * PX, NULL, NULL, 20 * ONE),
    OptionSide("call", 105 * PX, 1 * PX, NULL, NULL, 20 * ONE) }

\* the contracts of the several-slice chains
SmallPool ==
  { OptionSide("put", 90 * PX, 2 * PX, NULL, NULL, 25 * ONE),
    OptionSide("put", 90 * PX, 1 * PX, NULL, 3 * PX, NULL),
    OptionSide("call", 110 * PX, 2 * PX, 4 * PX, NULL, 25 * ONE) }

ExpiryDays == {5, 14, 22, 30, 40}

\* a long slice: BigLen puts and BigLen calls at distinct OTM strikes, the bid
\* rising or falling with the strike
BigSlice(up) ==
  [i \in 1..(2 * BigLen) |->
     IF i <= BigLen
     THEN OptionSide("put", (99 - i) * PX, (IF up THEN i ELSE BigLen + 1 - i) * 10,
                     NULL, NULL, 25 * ONE)
     ELSE OptionSide("call", (101 + i - BigLen) * PX,
                     (IF up THEN i - BigLen ELSE 2 * BigLen + 1 - i) * 10,
                     NULL, NULL, 25 * ONE)]

\* the puts of a long slice and one call of a lower yield than any of them
PutsAndCall ==
  SubSeq(BigSlice(TRUE), 1, BigLen)
  \o <<OptionSide("call", 110 * PX, 10, NULL, NULL, 25 * ONE)>>

ChainInputs ==
  {<<>>}
  \cup { <<ExpirySlice(d * DAY, PutsAndCall)>> : d \in {14, 30} }
  \cup { <<ExpirySlice(30 * DAY, <<c>>)>> : c \in Pool }
  \cup { <<ExpirySlice(30 * DAY, <<c, d>>)>> : c \in Pool, d \in Companions }
  \cup { <<ExpirySlice(30 * DAY, <<c, c>>)>> : c \in Pool }
  \cup { <<ExpirySlice(d1 * DAY, <<c1>>), ExpirySlice(d2 * DAY, <<c2>>)>> :
           d1 \in ExpiryDays, d2 \in ExpiryDays, c1 \in SmallPool, c2 \in SmallPool }
  \cup { <<ExpirySlice(d * DAY, BigSlice(up))>> : d \in {14, 30}, up \in BOOLEAN }

NowSet == {0, 18}     \* hours

\* the same snapshot as the flat OptionsChain of part_005: iv as a decimal
RECURSIVE ToLegs(_, _)
ToLegs(options, expiry) ==
  IF options = <<>> THEN <<>>
  ELSE <<ChainLeg(Head(options), expiry,
                  IF Head(options).iv = NULL THEN NULL ELSE RDiv(Head(options).iv, 100))>>
       \o ToLegs(Tail(options), expiry)

ToChain(slices) == Concat([i \in 1..Len(slices) |-> ToLegs(slices[i].options, slices[i].expiry)])

ToQuote(p) == [null |-> p = NULL, price |-> p, dividendYield |-> NULL]

(* ---------------- Inputs of the options handlers ----------------------------- *)

MaxArr == 4          \* contracts of a short upstream result
MaxLimit == 3        \* the small ?limit= values
LadderOver == 2      \* strikes a long result holds beyond WINDOW

WindowStrikes == {NULL, 0, 95 * PX, 100 * PX, 105 * PX}
WindowPrices  == {NULL, 0, 97 * PX, 100 * PX}
LimitQueries  == {NULL, 250} \cup (0..MaxLimit)

\* a mapped contract: the window reads its strike alone
Mapped(strike, type) == [strike |-> strike, type |-> type]

SideAt(i) == IF i % 2 = 1 THEN "call" ELSE "put"

\* every result of at most MaxArr contracts over WindowStrikes
ShortResults ==
  UNION { { [i \in 1..n |-> Mapped(f[i], SideAt(i))] : f \in [1..n -> WindowStrikes] } :
          n \in 0..MaxArr }

\* a call and a put at each of n strikes a unit apart, around Spot
Ladder(n) ==
  [i \in 1..(2 * n) |-> Mapped((75 + ((i + 1) \div 2)) * PX, SideAt(i))]

LongResults == { Ladder(n) : n \in (WINDOW - 1)..(WINDOW + LadderOver) }

(* ---------------- State ------------------------------------------------------ *)

VARIABLES
  now,        \* Date.now() of the render
  expiries,   \* App state: ExpirySlice[]
  uPrice,     \* App state: number | null
  quote,      \* part_005 state: Quote | null
  chain,      \* part_005 state: OptionsChain
  topPuts,    \* value of the topPuts memo
  topYields,  \* value of the topYields memo
  yieldRows,  \* value of the yieldRows memo
  computed,   \* the memos evaluated for the current state
  json,       \* App: the /api/options response fetchOptions is awaiting
  chainErr,   \* App state: the message runFlow shows for a failed load
  mapped,     \* handler: the contracts of one expiry, as received
  underlier,  \* handler: the upstream underlier price, or null
  limitQuery, \* handler: req.query.limit, or null when absent
  filtered,   \* handler: the response slice of that expiry
  args,       \* a call of one function of the engine: its name and arguments
  result,     \* the value that call returned
  results,    \* Polygon handler: j.results, the contracts of every expiry
  served,     \* Polygon handler: the expiries of the JSON response
  symbol,     \* App state: the text of the ticker input
  price,      \* App state: the quote price shown, or null
  err,        \* App state: the message of the input check
  loading,    \* App state: the one loader of the flows
  view,       \* App state: "yields", "chain" or null ("")
  flows       \* the calls of runFlow awaiting a response, in starting order

render  == <<now, expiries, uPrice, quote, chain>>
memos   == <<topPuts, topYields, yieldRows, computed>>
load    == <<json, chainErr>>
request == <<mapped, underlier, limitQuery>>
call    == <<args, result>>
snapshot == <<results, served>>
ui      == <<symbol, price, err, loading, view, flows>>
vars    == <<render, memos, load, request, snapshot, ui, filtered, call>>

NoResponse == [done |-> FALSE, handler |-> "", limit |-> 0, center |-> 0, options |-> <<>>]

InitMemos ==
  /\ topPuts = [null |-> TRUE, rows |-> <<>>]
  /\ topYields = [null |-> TRUE, callsTop |-> <<>>, putsTop |-> <<>>]
  /\ yieldRows = <<>>
  /\ computed = {}

\* no /api/options response awaited, no load failed
NoJson == [pending |-> FALSE, expiries |-> <<>>, underlierPrice |-> NULL]

\* the responses of /api/options a load may receive
Responses ==
  { [pending |-> TRUE, expiries |-> e, underlierPrice |-> p] :
      e \in {<<>>} \cup { <<ExpirySlice(30 * DAY, <<c>>)>> : c \in SmallPool },
      p \in {NULL, Spot} }

NoCall   == [fn |-> ""]
NoResult == [done |-> FALSE]
NoServed == [done |-> FALSE, expiries |-> <<>>]

\* the App as mounted: useState(""), useState(null), useState(false)
InitUi ==
  /\ symbol = "" /\ price = NULL /\ err = ""
  /\ loading = FALSE /\ view = "" /\ flows = <<>>

InitIdle ==
  /\ mapped = <<>> /\ underlier = NULL /\ limitQuery = NULL
  /\ filtered = NoResponse
  /\ args = NoCall /\ result = NoResult
  /\ results = <<>> /\ served = NoServed
  /\ InitUi

\* the App with a chain loaded, or just mounted with runFlow awaiting the
\* response of /api/options; no handler request in flight
Init ==
  /\ now \in NowSet
  /\ \/ /\ expiries \in ChainInputs
        /\ uPrice \in {NULL, Spot}
        /\ json = NoJson
     \/ /\ expiries = <<>>
        /\ uPrice = NULL
        /\ json \in Responses
  /\ chainErr = ""
  /\ quote = ToQuote(uPrice)
  /\ chain = ToChain(expiries)
  /\ InitMemos
  /\ InitIdle

\* fetchOptions, and the catch of runFlow around it: an empty chain is thrown as
\* "No options data found." and leaves the state as it was; any other chain is
\* stored, which invalidates the memos
FetchOptions ==
  /\ json.pending
  /\ json' = NoJson
  /\ IF Len(json.expiries) = 0
     THEN /\ chainErr' = "No options data found."
          /\ UNCHANGED <<expiries, uPrice, memos>>
     ELSE /\ uPrice' = IF IsNumber(json.underlierPrice) THEN json.underlierPrice ELSE NULL
          /\ expiries' = json.expiries
          /\ topPuts' = [null |-> TRUE, rows |-> <<>>]
          /\ topYields' = [null |-> TRUE, callsTop |-> <<>>, putsTop |-> <<>>]
          /\ yieldRows' = <<>>
          /\ computed' = {}
          /\ UNCHANGED chainErr
  /\ UNCHANGED <<now, quote, chain, request, snapshot, ui, filtered, call>>

ComputeTopPuts ==
  /\ "topPuts" \notin computed
  /\ topPuts' = TopPuts(expiries, uPrice, now)
  /\ computed' = computed \cup {"topPuts"}
  /\ UNCHANGED <<render, topYields, yieldRows, load, request, snapshot, ui, filtered, call>>

ComputeTopYields ==
  /\ "topYields" \notin computed
  /\ topYields' = TopYields(expiries, uPrice, now)
  /\ computed' = computed \cup {"topYields"}
  /\ UNCHANGED <<render, topPuts, yieldRows, load, request, snapshot, ui, filtered, call>>

ComputeYieldRows ==
  /\ "yieldRows" \notin computed
  /\ yieldRows' = YieldRows(chain, quote, now)
  /\ computed' = computed \cup {"yieldRows"}
  /\ UNCHANGED <<render, topPuts, topYields, load, request, snapshot, ui, filtered, call>>

Next == FetchOptions \/ ComputeTopPuts \/ ComputeTopYields \/ ComputeYieldRows

Spec == Init /\ [][Next]_vars

\* a handler with the upstream result of one expiry in hand; the App not loaded
InitWindow ==
  /\ now = 0 /\ expiries = <<>> /\ uPrice = NULL
  /\ quote = ToQuote(NULL) /\ chain = <<>>
  /\ InitMemos
  /\ json = NoJson /\ chainErr = ""
  /\ mapped \in ShortResults \cup LongResults
  /\ underlier \in WindowPrices
  /\ limitQuery \in LimitQueries
  /\ filtered = NoResponse
  /\ args = NoCall /\ result = NoResult
  /\ results = <<>> /\ served = NoServed
  /\ InitUi

\* api/options.js: the window of one expiry, 50 strikes
PolygonOptions ==
  /\ ~filtered.done
  /\ LET center == centerPolygon(mapped, underlier)
     IN  filtered' = [done |-> TRUE, handler |-> "polygon", limit |-> WINDOW,
                      center |-> center, options |-> windowOf(mapped, center, WINDOW)]
  /\ UNCHANGED <<render, memos, load, request, snapshot, ui, call>>

\* part_003 (Yahoo): the window of one expiry, limit strikes
YahooOptions ==
  /\ ~filtered.done
  /\ LET center == centerYahoo(mapped, underlier)
         limit  == limitOf(limitQuery)
     IN  filtered' = [done |-> TRUE, handler |-> "yahoo", limit |-> limit,
                      center |-> center, options |-> windowOf(mapped, center, limit)]
  /\ UNCHANGED <<render, memos, load, request, snapshot, ui, call>>

NextWindow == PolygonOptions \/ YahooOptions

SpecWindow == InitWindow /\ [][NextWindow]_vars

(* ---------------- App.tsx: the rows of the chain view -------------------------- *)

\* callsByStrike.get(strike) ?? null, over the contracts `side` filed in that map:
\* the last contract set under the strike, as <<contract>>, or <<>> for null
entryAt(side, strike) ==
  LET at == {i \in 1..Len(side) : side[i].strike = strike}
  IN  IF at = {} THEN <<>>
      ELSE <<side[CHOOSE i \in at : \A j \in at : j <= i]>>

\* the keys of the two maps in insertion order, calls first, left unsorted
ladderStrikes_unsorted(calls, puts) ==
  strikeSet(calls \o puts, {})

\* Array.from(new Set([...callsByStrike.keys(), ...putsByStrike.keys()])).sort((a, b) => a - b)
ladderStrikes(calls, puts) ==
  SortBy(strikeSet(calls \o puts, {}), NULL)

\* strikes.map(strike => ({strike, call, put})) over the two maps of one expiry
ladderOf(calls, puts, strikes) ==
  [k \in 1..Len(strikes) |->
     [strike |-> strikes[k], call |-> entryAt(calls, strikes[k]), put |-> entryAt(puts, strikes[k])]]

\* the rows memo: the ladder of expiries[activeIdx], [] when there is none
chainRows(slices, activeIdx) ==
  IF activeIdx + 1 \notin 1..Len(slices) THEN <<>>
  ELSE ladderOf(SelectSeq(slices[activeIdx + 1].options, LAMBDA o : o.type = "call"),
                SelectSeq(slices[activeIdx + 1].options, LAMBDA o : o.type # "call"),
                ladderStrikes(SelectSeq(slices[activeIdx + 1].options, LAMBDA o : o.type = "call"),
                              SelectSeq(slices[activeIdx + 1].options, LAMBDA o : o.type # "call")))

MaxRungs == 3        \* contracts of the expiry a ladder is built from

\* calls and puts at three strikes, and a second call and put at strike 90
RungContracts ==
  { OptionSide(t, k, 1 * PX, NULL, NULL, NULL) : t \in Types, k \in {90 * PX, 100 * PX, 110 * PX} }
  \cup { OptionSide(t, 90 * PX, 2 * PX, NULL, NULL, NULL) : t \in Types }

RungOptions == UNION { [1..n -> RungContracts] : n \in 0..MaxRungs }

\* the chain view asked for the expiry at activeIdx: no expiry, one, or the one
\* behind a first expiry of one call
RowsCalls ==
  { [fn |-> "rows", expiries |-> es, activeIdx |-> a] :
      es \in {<<>>}
             \cup { <<ExpirySlice(30 * DAY, os)>> : os \in RungOptions }
             \cup { <<ExpirySlice(14 * DAY, <<OptionSide("call", 105 * PX, 1 * PX, NULL, NULL, NULL)>>),
                      ExpirySlice(30 * DAY, os)>> : os \in RungOptions },
      a \in 0..2 }

(* ---------------- Calls of single functions of the engine -------------------- *)

MaxPts == 3          \* contracts of the slice an IV curve is built from

\* strike and IV (in percent) of a contract: three strikes under two IVs, a
\* strike of 0 and an absent IV
CurveQuotes ==
  { <<k, v>> : k \in {90 * PX, 100 * PX, 110 * PX}, v \in {20 * ONE, 30 * ONE} }
  \cup { <<0, 20 * ONE>>, <<90 * PX, NULL>> }

TargetKs == {NULL, PosInf, 0 - 5 * PX, 0, 80 * PX, 90 * PX, 95 * PX, 100 * PX, 120 * PX}

\* the contracts of one expiry as far as the IV curve reads them: calls and puts
\* in turn, so that a strike may be quoted on both sides
CurveOptions ==
  UNION { { [i \in 1..n |-> OptionSide(SideAt(i), qs[i][1], NULL, NULL, NULL, qs[i][2])] :
              qs \in [1..n -> CurveQuotes] } : n \in 0..MaxPts }

\* the curve of one expiry asked for a strike, by topPuts and by yieldRows
CurveCalls ==
  { [fn |-> f, S |-> Spot, options |-> os, targetK |-> k] :
      f \in {"interpolateIV_logMoneyness", "interpolateIV_dec"},
      os \in CurveOptions, k \in TargetKs }

\* a probability of finishing OTM asked of the App: any argument may be absent,
\* zero or negative
ProbCallsApp ==
  { [fn |-> f, side |-> sd, S |-> S, K |-> K, iv |-> v, T |-> T] :
      f \in {"probOTM_forward", "probOTM"}, sd \in Types,
      S \in {NULL, 0, Spot}, K \in {NULL, 0 - 5 * PX, 0, 90 * PX, 110 * PX},
      v \in {NULL, 0, 25 * (ONE \div 100)}, T \in {NULL, 0, RDiv(30 * ONE, YEAR_DAYS)} }

\* the same asked by yieldRows of part_005, which passes a spot, an IV it has
\* made positive and a time floored at 1/365, and the strike as the leg has it
ProbCallsDec ==
  { [fn |-> "probOTM_forwardD2", side |-> sd, S |-> Spot, K |-> K,
     iv |-> 25 * (ONE \div 100), T |-> T] :
      sd \in Types, K \in {0 - 5 * PX, 0, 90 * PX, 110 * PX},
      T \in {RDiv(ONE, YEAR_DAYS), RDiv(30 * ONE, YEAR_DAYS)} }

\* the deltas of a call and a put of one strike and expiry, as yieldRows asks
\* them under q = Math.max(0, quote.dividendYield ?? 0)
DividendYields == {0, 12 * (ONE \div 1000), 5 * (ONE \div 100)}

DeltaCalls ==
  { [fn |-> "bsDelta", S |-> Spot, K |-> K, iv |-> v, T |-> T, q |-> q] :
      K \in {90 * PX, Spot, 110 * PX}, v \in {10 * (ONE \div 100), 25 * (ONE \div 100)},
      T \in {RDiv(30 * ONE, YEAR_DAYS), RDiv(180 * ONE, YEAR_DAYS)}, q \in DividendYields }

MaxSlices == 3       \* expiries of the chain a selection runs over

\* days from time 0 to an expiry: one in the past, and pairs at equal distance
\* from the buckets 7, 14 and 21
SliceDays == {0 - 2, 4, 10, 18, 24, 38}

\* the selection of topPuts and topYields over a chain of up to MaxSlices expiries
SelectCalls ==
  { [fn |-> "nearestByBucket", expiries |-> [i \in 1..n |-> ExpirySlice(ds[i] * DAY, <<>>)],
     now |-> t] :
      n \in 0..MaxSlices, ds \in [1..MaxSlices -> SliceDays], t \in NowSet }

CalcInputs ==
  CurveCalls \cup ProbCallsApp \cup ProbCallsDec \cup DeltaCalls \cup SelectCalls \cup RowsCalls

\* one call of a function of the engine in hand; the App not loaded
InitCalc ==
  /\ now = 0 /\ expiries = <<>> /\ uPrice = NULL
  /\ quote = ToQuote(NULL) /\ chain = <<>>
  /\ InitMemos
  /\ json = NoJson /\ chainErr = ""
  /\ mapped = <<>> /\ underlier = NULL /\ limitQuery = NULL
  /\ filtered = NoResponse
  /\ args \in CalcInputs
  /\ result = NoResult
  /\ results = <<>> /\ served = NoServed
  /\ InitUi

Returned(points, value) == [done |-> TRUE, points |-> points, value |-> value]

\* App.tsx: the curve of ivPoints asked for targetK
CallInterpolateIV ==
  /\ ~result.done
  /\ args.fn = "interpolateIV_logMoneyness"
  /\ result' = Returned(ivPoints(args.options),
                        interpolateIV_logMoneyness(args.S, ivPoints(args.options), args.targetK))
  /\ UNCHANGED <<render, memos, load, request, snapshot, ui, filtered, args>>

\* part_005: the curve of the expiry's legs asked for targetK
CallInterpolateIV_dec ==
  /\ ~result.done
  /\ args.fn = "interpolateIV_dec"
  /\ result' = Returned(ivPoints_dec(ToLegs(args.options, 0)),
                        interpolateIV_dec(args.S, ivPoints_dec(ToLegs(args.options, 0)),
                                          args.targetK))
  /\ UNCHANGED <<render, memos, load, request, snapshot, ui, filtered, args>>

\* App.tsx: probOTM_forward under the default rate and dividend yield (topPuts)
CallProbOTM_forward ==
  /\ ~result.done
  /\ args.fn = "probOTM_forward"
  /\ result' = Returned(<<>>, probOTM_forward(args.side, args.S, args.K, args.iv, args.T,
                                              DEFAULT_RISK_FREE, DEFAULT_DIVIDEND_YIELD))
  /\ UNCHANGED <<render, memos, load, request, snapshot, ui, filtered, args>>

\* App.tsx: probOTM (topYields)
CallProbOTM ==
  /\ ~result.done
  /\ args.fn = "probOTM"
  /\ result' = Returned(<<>>, probOTM(args.side, args.S, args.K, args.iv, args.T))
  /\ UNCHANGED <<render, memos, load, request, snapshot, ui, filtered, args>>

\* part_005: probOTM_forwardD2 under riskFreeRateAnnual and no dividend (yieldRows)
CallProbOTM_forwardD2 ==
  /\ ~result.done
  /\ args.fn = "probOTM_forwardD2"
  /\ result' = Returned(<<>>, probOTM_forwardD2(args.S, args.K, args.T, args.iv,
                                                riskFreeRateAnnual(args.T), 0, args.side))
  /\ UNCHANGED <<render, memos, load, request, snapshot, ui, filtered, args>>

\* part_005: bsDelta for the call and for the put of one strike and expiry
CallBsDelta ==
  /\ ~result.done
  /\ args.fn = "bsDelta"
  /\ result' = Returned(<<>>,
        [call |-> bsDelta(args.S, args.K, args.T, args.iv, riskFreeRateAnnual(args.T),
                          args.q, "call"),
         put  |-> bsDelta(args.S, args.K, args.T, args.iv, riskFreeRateAnnual(args.T),
                          args.q, "put")])
  /\ UNCHANGED <<render, memos, load, request, snapshot, ui, filtered, args>>

\* App.tsx: expDte, and nearestByBucket filled for every target of DTE_BUCKETS
CallNearestByBucket ==
  /\ ~result.done
  /\ args.fn = "nearestByBucket"
  /\ result' = Returned(ExpDte(args.expiries, args.now),
                        [b \in 1..Len(DTE_BUCKETS) |->
                           nearestByBucket(ExpDte(args.expiries, args.now), DTE_BUCKETS[b])])
  /\ UNCHANGED <<render, memos, load, request, snapshot, ui, filtered, args>>

\* App.tsx: the rows memo for expiries and activeIdx
CallRows ==
  /\ ~result.done
  /\ args.fn = "rows"
  /\ result' = Returned(<<>>, chainRows(args.expiries, args.activeIdx))
  /\ UNCHANGED <<render, memos, load, request, snapshot, ui, filtered, args>>

NextCalc ==
  \/ CallInterpolateIV \/ CallInterpolateIV_dec
  \/ CallProbOTM_forward \/ CallProbOTM \/ CallProbOTM_forwardD2
  \/ CallBsDelta
  \/ CallNearestByBucket
  \/ CallRows

SpecCalc == InitCalc /\ [][NextCalc]_vars

(* ---------------- api/options.js: the handler over a whole snapshot ----------- *)

\* the keys of byExpiry in insertion order: the expiration dates of j.results
RECURSIVE expirationDates(_, _)
expirationDates(rs, seen) ==
  IF rs = <<>> THEN <<>>
  ELSE IF Head(rs).exp \in seen THEN expirationDates(Tail(rs), seen)
  ELSE <<Head(rs).exp>> \o expirationDates(Tail(rs), seen \cup {Head(rs).exp})

\* a grouping that files every contract under every expiration date
byExpiry_anyDate(rs, exp) ==
  [i \in 1..Len(rs) |-> Mapped(rs[i].strike, rs[i].type)]

\* byExpiry.get(exp): the contracts pushed under one expiration date, in the
\* order of j.results
byExpiry(rs, exp) ==
  LET own == SelectSeq(rs, LAMBDA o : o.exp = exp)
  IN  [i \in 1..Len(own) |-> Mapped(own[i].strike, own[i].type)]

\* one entry of the response: the window of the contracts of one expiration date
expirySlice(arr, exp, under) ==
  [expiry |-> exp, options |-> windowOf(arr, centerPolygon(arr, under), WINDOW)]

\* the loop over byExpiry.entries()
expiriesOf(rs, under) ==
  LET dates == expirationDates(rs, {})
  IN  [k \in 1..Len(dates) |-> expirySlice(byExpiry(rs, dates[k]), dates[k], under)]

MaxOther == 2        \* contracts of the second expiration date of a snapshot

Result(exp, o) == [exp |-> exp, strike |-> o.strike, type |-> o.type]

\* the contracts arr under the date exp
Dated(arr, exp) == [i \in 1..Len(arr) |-> Result(exp, arr[i])]

\* the contracts of the other date put into those of the main date after its
\* first `at` contracts
Spliced(main, other, at) ==
  SubSeq(main, 1, Min(at, Len(main))) \o other \o SubSeq(main, Min(at, Len(main)) + 1, Len(main))

\* the strikes of the second date: near the lowest, at the median and beyond the
\* highest strike of a ladder
OtherStrikes == {70 * PX, 100 * PX, 140 * PX}

OtherResults ==
  UNION { { [i \in 1..n |-> Mapped(f[i], SideAt(i))] : f \in [1..n -> OtherStrikes] } :
          n \in 0..MaxOther }

\* snapshots of two expiration dates, 30 and 60 days: a ladder or a short result
\* under the first, up to MaxOther contracts under the second, the second put
\* before, into or behind the first
SnapshotResults ==
  { Spliced(Dated(m, 30 * DAY), Dated(o, 60 * DAY), at) :
      m \in LongResults \cup {r \in ShortResults : Len(r) <= 2},
      o \in OtherResults, at \in {0, 1, 2 * (WINDOW + LadderOver)} }

InitSnapshot ==
  /\ now = 0 /\ expiries = <<>> /\ uPrice = NULL
  /\ quote = ToQuote(NULL) /\ chain = <<>>
  /\ InitMemos
  /\ json = NoJson /\ chainErr = ""
  /\ mapped = <<>> /\ limitQuery = NULL
  /\ filtered = NoResponse
  /\ args = NoCall /\ result = NoResult
  /\ results \in SnapshotResults
  /\ underlier \in WindowPrices
  /\ served = NoServed
  /\ InitUi

\* api/options.js: the response to one snapshot
PolygonSnapshot ==
  /\ ~served.done
  /\ served' = [done |-> TRUE, expiries |-> expiriesOf(results, underlier)]
  /\ UNCHANGED <<render, memos, load, request, results, ui, filtered, call>>

NextSnapshot == PolygonSnapshot

SpecSnapshot == InitSnapshot /\ [][NextSnapshot]_vars

(* ---------------- App.tsx: runFlow and the controls that start it ------------- *)

MaxInFlight == 2     \* calls of runFlow awaiting a response at one time

Symbols == {"AAA", "BBB"}

\* what the upstream holds for a ticker: its quote price, and its option chain
\* with the underlier price of that chain
PriceOf(s) == IF s = "AAA" THEN Spot ELSE 50 * PX

ChainOf(s) ==
  IF s = "AAA" THEN <<ExpirySlice(30 * DAY, <<OptionSide("put", 90 * PX, 2 * PX, NULL, NULL, 25 * ONE)>>)>>
  ELSE <<ExpirySlice(30 * DAY, <<OptionSide("put", 45 * PX, 1 * PX, NULL, NULL, 25 * ONE)>>)>>

\* the answers of /api/options: a chain with or without an underlier price, a
\* chain of no expiries, or a status that is not ok
OptionsAnswers == {"chain", "chainNoPrice", "empty", "failed"}

Flow(s, targetView) == [s |-> s, view |-> targetView, pc |-> "quote"]

Without(q, i) == SubSeq(q, 1, i - 1) \o SubSeq(q, i + 1, Len(q))

\* the browser with no chain loaded and no flow started
InitFlow ==
  /\ now = 0 /\ expiries = <<>> /\ uPrice = NULL
  /\ quote = ToQuote(NULL) /\ chain = <<>>
  /\ InitMemos
  /\ json = NoJson /\ chainErr = ""
  /\ InitIdle

\* onChange of the ticker input: setSymbol(e.target.value.toUpperCase())
TypeSymbol ==
  /\ symbol' \in (Symbols \cup {""}) \ {symbol}
  /\ UNCHANGED <<render, memos, load, request, snapshot, filtered, call,
                 price, err, loading, view, flows>>

\* runFlow up to its first await: the input check, setLoading(true),
\* setChainErr(""), and updateQuote up to its fetch
runFlow(targetView) ==
  IF symbol = ""
  THEN /\ err' = "Enter a ticker first."
       /\ UNCHANGED <<loading, chainErr, flows>>
  ELSE /\ loading' = TRUE
       /\ chainErr' = ""
       /\ err' = ""
       /\ flows' = Append(flows, Flow(symbol, targetView))

\* onClick of "Check Yields" and of "Options Chain": disabled={loading || !symbol.trim()}
ClickButton ==
  /\ ~loading /\ symbol # ""
  /\ Len(flows) < MaxInFlight
  /\ \E targetView \in {"yields", "chain"} : runFlow(targetView)
  /\ UNCHANGED <<render, memos, json, request, snapshot, filtered, call, symbol, price, view>>

\* onKeyDown of the ticker input: e.key === "Enter" && runFlow("yields")
PressEnter ==
  /\ Len(flows) < MaxInFlight
  /\ runFlow("yields")
  /\ UNCHANGED <<render, memos, json, request, snapshot, filtered, call, symbol, price, view>>

\* the response of /api/quote reaches a flow: updateQuote sets the price and
\* runFlow goes on to fetchOptions, or updateQuote clears the price and throws,
\* which runFlow catches
QuoteResponds ==
  \E i \in 1..Len(flows) : \E ok \in BOOLEAN :
    /\ flows[i].pc = "quote"
    /\ IF ok
       THEN /\ price' = PriceOf(flows[i].s)
            /\ flows' = [flows EXCEPT ![i].pc = "options"]
            /\ UNCHANGED <<loading, chainErr>>
       ELSE /\ price' = NULL
            /\ chainErr' = "Quote fetch failed"
            /\ loading' = FALSE
            /\ flows' = Without(flows, i)
    /\ UNCHANGED <<render, memos, json, request, snapshot, filtered, call, symbol, err, view>>

\* the response of /api/options reaches a flow: fetchOptions stores the chain
\* and runFlow sets the view, or fetchOptions throws; finally setLoading(false)
OptionsResponds ==
  \E i \in 1..Len(flows) : \E answer \in OptionsAnswers :
    /\ flows[i].pc = "options"
    /\ flows' = Without(flows, i)
    /\ loading' = FALSE
    /\ IF answer \in {"chain", "chainNoPrice"}
       THEN /\ uPrice' = IF answer = "chain" THEN PriceOf(flows[i].s) ELSE NULL
            /\ expiries' = ChainOf(flows[i].s)
            /\ view' = flows[i].view
            /\ topPuts' = [null |-> TRUE, rows |-> <<>>]
            /\ topYields' = [null |-> TRUE, callsTop |-> <<>>, putsTop |-> <<>>]
            /\ yieldRows' = <<>>
            /\ computed' = {}
            /\ UNCHANGED chainErr
       ELSE /\ chainErr' = IF answer = "empty" THEN "No options data found."
                           ELSE "Options fetch failed"
            /\ UNCHANGED <<expiries, uPrice, view, memos>>
    /\ UNCHANGED <<now, quote, chain, json, request, snapshot, filtered, call,
                   symbol, price, err>>

NextFlow == TypeSymbol \/ ClickButton \/ PressEnter \/ QuoteResponds \/ OptionsResponds

SpecFlow == InitFlow /\ [][NextFlow]_vars

(* ======================= Claims ============================================== *)

Range(q) == {q[i] : i \in 1..Len(q)}

\* the tables of the App memos, and the contract each of their rows came from
AppTables == <<topPuts.rows, topYields.callsTop, topYields.putsTop>>
AppRows(t) == Range(AppTables[t])

\* C1: in topPuts, topYields and yieldRows no output row comes from a contract
\* whose bid is absent or not strictly greater than 0.
C1_BidPositive ==
  /\ \A t \in 1..3 : \A r \in AppRows(t) : IsNumber(r.o.bid) /\ r.o.bid > 0
  /\ \A r \in Range(yieldRows) : IsNumber(r.leg.bid) /\ r.leg.bid > 0

\* C2: every call row has strike > spot and every put row has strike < spot,
\* in topPuts, topYields and yieldRows.
C2_OtmOnly ==
  /\ \A t \in 1..3 : \A r \in AppRows(t) :
       IF r.side = "call" THEN r.strike > uPrice ELSE r.strike < uPrice
  /\ \A r \in Range(yieldRows) :
       IF r.type = "call" THEN r.strike > quote.price ELSE r.strike < quote.price

\* C3: every output row has a probOTM that is a number in [0, 1] (0..100 %)
\* and at least the 60 % floor.
C3_ProbFloor ==
  /\ \A t \in 1..3 : \A r \in AppRows(t) :
       isFinite(r.probOTM) /\ r.probOTM >= MIN_PROB_OTM * ONE /\ r.probOTM <= 100 * ONE
  /\ \A r \in Range(yieldRows) :
       isFinite(r.probOtm) /\ r.probOtm >= 6000 /\ r.probOtm <= ONE

\* an IV fraction a computation can use
UsableIv(v) == isFinite(v) /\ v > 0

\* C4: a contract with no observed IV (> 0) of its own, whose expiry gives no
\* usable interpolated IV, is in no output; no default IV stands in for it.
C4_NoDefaultIv ==
  /\ \A r \in AppRows(1) :
       UsableIv(r.o.iv) \/
       UsableIv(interpolateIV_logMoneyness(uPrice,
                  ivPoints(expiries[CHOOSE i \in 1..Len(expiries) :
                                      expiries[i].expiry = r.expiry].options), r.strike))
  /\ \A t \in 2..3 : \A r \in AppRows(t) : UsableIv(r.o.iv)
  /\ \A r \in Range(yieldRows) :
       UsableIv(r.leg.iv) \/
       UsableIv(interpolateIV_dec(quote.price, ivPoints_dec(LegsOf(chain, r.expiry)), r.strike))

\* the chain without its contracts of strike <= 0
PositiveStrikes(slices) ==
  [i \in 1..Len(slices) |->
     ExpirySlice(slices[i].expiry, SelectSeq(slices[i].options, LAMBDA o : o.strike > 0))]

\* C5: a contract of strike <= 0 is dropped and the other contracts of its slice
\* are evaluated as if it were not there; no row of strike <= 0 is in any output.
C5_NonPositiveStrikeDropped ==
  /\ \A t \in 1..3 : \A r \in AppRows(t) : r.strike > 0
  /\ \A r \in Range(yieldRows) : r.strike > 0
  /\ "topPuts" \in computed => topPuts = TopPuts(PositiveStrikes(expiries), uPrice, now)
  /\ "yieldRows" \in computed =>
        yieldRows = YieldRows(ToChain(PositiveStrikes(expiries)), quote, now)

\* no two positions of a table hold the same key
Unique(keys) == \A i, j \in 1..Len(keys) : keys[i] = keys[j] => i = j

LegKey(r) == <<r.type, r.expiry, r.strike>>

\* C6: in no output table do two rows share the key (side, expiry, strike).
C6_UniqueKeys ==
  /\ \A t \in 1..3 : Unique([i \in 1..Len(AppTables[t]) |-> uniqKey(AppTables[t][i])])
  /\ Unique([i \in 1..Len(yieldRows) |-> LegKey(yieldRows[i])])

\* a table in descending order of the field key
Descending(t, key) == \A i \in 1..(Len(t) - 1) : ~KeyLess(t[i][key], t[i + 1][key])

\* t is the top of the candidate rows cands of one side
TrueTop(t, cands, key) ==
  /\ Descending(t, key)
  /\ Len(t) <= TOP_N
  /\ Range(t) \subseteq Range(cands)
  /\ \A c \in Range(cands) \ Range(t) : \A r \in Range(t) : ~KeyLess(r[key], c[key])
  /\ Len(cands) < TOP_N => Range(cands) \subseteq Range(t)

RowsOfType(rows, type) == SelectSeq(rows, LAMBDA r : r.type = type)

\* C7: each ranked table is in non-increasing order of yield and holds at most
\* 10 rows per side; for each side no candidate row left out has a yield
\* strictly greater than a listed row of that side, and a side with fewer than
\* 10 candidate rows has all of them listed.
C7_TopTenPerSide ==
  /\ ("topPuts" \in computed /\ ~topPuts.null) =>
        TrueTop(topPuts.rows, dedupe(putsAll(expiries, uPrice, now), {}), "yieldPct")
  /\ ("topYields" \in computed /\ ~topYields.null) =>
        /\ TrueTop(topYields.callsTop,
                   dedupe(OfSide(yieldsAll(expiries, uPrice, now), "call"), {}), "yieldPct")
        /\ TrueTop(topYields.putsTop,
                   dedupe(OfSide(yieldsAll(expiries, uPrice, now), "put"), {}), "yieldPct")
  /\ ("yieldRows" \in computed /\ ~quote.null /\ Len(chain) > 0) =>
        \A type \in Types :
          TrueTop(RowsOfType(yieldRows, type),
                  RowsOfType(rowsOf(chain, quote, now), type), "yieldDec")

MaxDte == 45       \* the step table is compared at every dte of 0..MaxDte

\* the step table as the specification words it, in percent (ONE is 1 %)
GoalPct(dte) ==
  CASE dte \in 22..31 -> 4000
    [] dte \in 15..21 -> 3000
    [] dte \in 8..14  -> 1800
    [] OTHER          -> 900

\* C8: yieldGoalByDTE maps dte in [22,31] to 0.40, [15,21] to 0.30, [8,14] to
\* 0.18 and every other dte to 0.09, in percent (part_005 holds the same goal as
\* a decimal fraction: 0.004 is 0.40 %); dte = 22, 21, 14, 7 give 0.40, 0.30,
\* 0.18, 0.09; and the goal of each output row is this function of the row's dte.
C8_GoalTable ==
  /\ \A dte \in 0..MaxDte :
       /\ yieldGoalByDTE(dte) = GoalPct(dte)
       /\ yieldGoalByDTE_dec(dte) * 100 = GoalPct(dte)
  /\ <<yieldGoalByDTE(22), yieldGoalByDTE(21), yieldGoalByDTE(14), yieldGoalByDTE(7)>>
       = <<4000, 3000, 1800, 900>>
  /\ \A r \in Range(topPuts.rows) : r.yieldGoalPct = GoalPct(r.dte)
  /\ \A r \in Range(yieldRows) : r.yieldGoal * 100 = GoalPct(r.dte)

\* a topPuts row at the 22-day boundary with the 0.40 goal, beside a yieldRows
\* row at the 14-day boundary with the 0.18 goal
C8_BoundaryRows ==
  /\ \E r \in Range(topPuts.rows) : r.dte = 22 /\ r.yieldGoalPct = 4000
  /\ \E r \in Range(yieldRows) : r.dte = 14 /\ r.yieldGoal = 18

\* C9: for every output row the yield is bid / strike of the row's contract
\* (100 * bid / strike in percent), for calls as for puts and from the bid, not
\* last or mid; and vsGoalBps is the yield less its goal, in basis points.
C9_YieldIsBidOverStrike ==
  /\ \A r \in AppRows(1) :
       /\ r.yieldPct = RDiv(r.o.bid * ONE * 100, r.o.strike)
       /\ r.vsGoalBps = (r.yieldPct - r.yieldGoalPct) * 100
  /\ \A t \in 2..3 : \A r \in AppRows(t) :
       r.yieldPct = RDiv(r.o.bid * ONE * 100, r.o.strike)
  /\ \A r \in Range(yieldRows) :
       /\ IsNumber(r.leg.bid) /\ r.leg.strike > 0
       /\ r.yieldDec = RDiv(r.leg.bid * ONE, r.leg.strike)
       /\ r.vsGoalBps = (r.yieldDec - r.yieldGoal) * 10000

\* the distinct strikes of a sequence of contracts
StrikesIn(arr) == {arr[i].strike : i \in 1..Len(arr)}

Dist(k, center) == Abs(StrikeNum(k) - center)

\* C10: for one expiry with D distinct strikes and window size N a handler keeps
\* exactly min(N, D) distinct strikes, and no dropped strike is strictly closer
\* to the center than a kept strike.
C10_StrikeWindow ==
  filtered.done =>
    LET all  == StrikesIn(mapped)
        kept == StrikesIn(filtered.options)
    IN  /\ kept \subseteq all
        /\ Cardinality(kept) = Min(filtered.limit, Cardinality(all))
        /\ \A d \in all \ kept : \A k \in kept :
             ~(Dist(d, filtered.center) < Dist(k, filtered.center))

\* a response whose window dropped strikes: more distinct strikes than the limit
C10_WindowDrops ==
  /\ filtered.done
  /\ Cardinality(StrikesIn(mapped)) > filtered.limit
  /\ StrikesIn(filtered.options) # {}
  /\ StrikesIn(mapped) \ StrikesIn(filtered.options) # {}

\* C11: when the underlier price is missing, or the chain has no expiries, or no
\* contract passes the filters, a ranking computation ends without an error and
\* its result is an empty table: no load has set an error message, no evaluated
\* memo is absent (null), and with no price or no expiry its tables are empty.
C11_EmptyTable ==
  /\ chainErr = ""
  /\ "topPuts" \in computed =>
       /\ ~topPuts.null
       /\ (uPrice = NULL \/ expiries = <<>>) => topPuts.rows = <<>>
  /\ "topYields" \in computed =>
       /\ ~topYields.null
       /\ (uPrice = NULL \/ expiries = <<>>) =>
            topYields.callsTop = <<>> /\ topYields.putsTop = <<>>
  /\ ("yieldRows" \in computed /\ (quote.null \/ chain = <<>>)) => yieldRows = <<>>

\* the times a second run over the same state may happen at
RunTimes == NowSet \cup {2 * DAY}

\* C12: two runs of a ranking computation over the same chain snapshot and the
\* same underlier price give identical tables whenever each of them happens: the
\* value of every evaluated memo is the value a run at any other time computes.
C12_SameOutputAnyTime ==
  \A t \in RunTimes :
    /\ "topPuts" \in computed => topPuts = TopPuts(expiries, uPrice, t)
    /\ "topYields" \in computed => topYields = TopYields(expiries, uPrice, t)
    /\ "yieldRows" \in computed => yieldRows = YieldRows(chain, quote, t)

\* the points a curve call was given, as strike and IV, under one field name
CurvePoints ==
  [i \in 1..Len(result.points) |->
     [K  |-> result.points[i].K,
      iv |-> IF args.fn = "interpolateIV_logMoneyness"
             THEN result.points[i].ivFrac ELSE result.points[i].iv]]

ValidPoint(p) == isFinite(p.K) /\ p.K > 0 /\ isFinite(p.iv) /\ p.iv > 0

ValidPoints == {p \in Range(CurvePoints) : ValidPoint(p)}

CurveCalled == result.done /\ args.fn \in {"interpolateIV_logMoneyness", "interpolateIV_dec"}

\* C13: interpolation is exact at observed points: a curve asked for the strike
\* K_i of any valid point (K_i, iv_i) it was given returns iv_i, also when
\* several points share that strike.
C13_ExactAtPoints ==
  CurveCalled =>
    \A p \in ValidPoints : p.K = args.targetK => result.value = p.iv

StrikesOfCurve == {p.K : p \in ValidPoints}

IvsAt(K) == {p.iv : p \in {q \in ValidPoints : q.K = K}}

SetMin(xs) == CHOOSE x \in xs : \A y \in xs : x <= y
SetMax(xs) == CHOOSE x \in xs : \A y \in xs : x >= y

\* two observed strikes with no observed strike between them
Adjacent(Ka, Kb) ==
  /\ Ka \in StrikesOfCurve /\ Kb \in StrikesOfCurve /\ Ka < Kb
  /\ ~\E K \in StrikesOfCurve : Ka < K /\ K < Kb

\* a curve with a valid point, asked for a strike that is a finite number > 0
CurveAnswered == CurveCalled /\ ValidPoints # {} /\ isFinite(args.targetK) /\ args.targetK > 0

\* C14: interpolation never extrapolates: a target strike below the lowest
\* observed strike gets the IV of the lowest-strike point, a target above the
\* highest observed strike gets the IV of the highest-strike point, and a target
\* between two adjacent observed strikes gets a value between the IVs of those
\* two points.
C14_NoExtrapolation ==
  CurveAnswered =>
    LET lo == SetMin(StrikesOfCurve)
        hi == SetMax(StrikesOfCurve)
        k  == args.targetK
    IN  /\ k < lo => result.value \in IvsAt(lo)
        /\ k > hi => result.value \in IvsAt(hi)
        /\ \A Ka \in StrikesOfCurve : \A Kb \in StrikesOfCurve :
             (Adjacent(Ka, Kb) /\ Ka < k /\ k < Kb) =>
               /\ result.value >= SetMin(IvsAt(Ka) \cup IvsAt(Kb))
               /\ result.value <= SetMax(IvsAt(Ka) \cup IvsAt(Kb))

\* a curve of two strikes with differing IVs, asked below its lowest strike,
\* answers the IV of the lowest strike
C14_Clamped ==
  /\ CurveAnswered
  /\ Cardinality(StrikesOfCurve) = 2
  /\ args.targetK < SetMin(StrikesOfCurve)
  /\ result.value = 3000
  /\ IvsAt(SetMax(StrikesOfCurve)) = {2000}

\* C15: a curve returns null whenever it was given no valid IV point or the
\* target strike is <= 0 or not finite, and a positive IV in every other case.
C15_NullIffInvalid ==
  CurveCalled =>
    IF ValidPoints = {} \/ ~isFinite(args.targetK) \/ args.targetK <= 0
    THEN result.value = NULL
    ELSE isFinite(result.value) /\ result.value > 0

ProbCalled == result.done /\ args.fn \in {"probOTM_forward", "probOTM", "probOTM_forwardD2"}

FinitePositive(v) == isFinite(v) /\ v > 0

\* C16: the probability-OTM operation returns null whenever any of S, K,
\* ivFraction or T_years is not a finite number strictly greater than 0, and a
\* number otherwise.
C16_NullOnInvalid ==
  ProbCalled =>
    IF \A v \in {args.S, args.K, args.iv, args.T} : FinitePositive(v)
    THEN isFinite(result.value) /\ result.value >= 0 /\ result.value <= ONE
    ELSE result.value = NULL

\* C17: ranking is idempotent: the deduplicate, sort-by-yield-descending and
\* keep-top-10 steps applied to a table those steps produced return the same
\* rows in the same order, also when several rows have equal yieldPct.
C17_RankIdempotent ==
  \A t \in 1..3 : Ranked(dedupe(AppTables[t], {})) = AppTables[t]

\* a ranked table that holds two rows of equal yieldPct
C17_TiedRows ==
  \E t \in 1..3 : \E i \in 1..Len(AppTables[t]) : \E j \in 1..Len(AppTables[t]) :
    i < j /\ AppTables[t][i].yieldPct = AppTables[t][j].yieldPct

DeltaCalled == result.done /\ args.fn = "bsDelta"

\* exp(-q * T) with T floored at 1/365, the discount of the dividend yield
Discount == Exp(0 - FMul(args.q, Max(args.T, RDiv(ONE, YEAR_DAYS))))

\* C18 as stated: at K = S, for every dividend yield q >= 0, the call delta
\* equals the put delta plus 1 (1e-6 is below the resolution 1/ONE, so equal).
C18_UnitParity ==
  (DeltaCalled /\ args.K = args.S) => result.value.call = result.value.put + ONE

\* C18: put-call delta parity: at K = S, for every dividend yield q >= 0, the
\* call delta equals the put delta plus exp(-q T): plus 1 when q = 0, and plus
\* less than 1 when the stock pays a dividend.
C18_DiscountedParity ==
  (DeltaCalled /\ args.K = args.S) =>
    /\ result.value.call = result.value.put + Discount
    /\ args.q = 0 => Discount = ONE
    /\ args.q > 0 => Discount < ONE

\* the deltas of an at-the-money call and put under a dividend yield of 5 %
C18_DividendPaid ==
  /\ DeltaCalled /\ args.K = args.S /\ args.q = 5 * (ONE \div 100)
  /\ result.value.call > 0 /\ result.value.call < ONE
  /\ result.value.put < 0

Selected == result.done /\ args.fn = "nearestByBucket"

\* |dte(slice i) - target of bucket b|, the dte as the definition gives it
DteGap(i, b) == Abs(daysBetween(args.now, args.expiries[i].expiry) - DTE_BUCKETS[b])

\* C19: for each target bucket the selection picks a slice whose |dte - target|
\* is minimal over all slices of the chain, and of the slices that tie at the
\* minimum the one that comes first in the chain's order; a chain without
\* slices gives no pick; every bucket is decided on its own.
C19_NearestFirst ==
  Selected =>
    \A b \in 1..Len(DTE_BUCKETS) :
      LET n == result.value[b]
      IN  IF args.expiries = <<>> THEN n = 0
          ELSE /\ n \in 1..Len(args.expiries)
               /\ \A j \in 1..Len(args.expiries) : DteGap(n, b) <= DteGap(j, b)
               /\ \A j \in 1..(n - 1) : DteGap(j, b) > DteGap(n, b)

\* one slice picked for two buckets, and a bucket whose pick ties with a later
\* slice of another dte
C19_TieAndRepeat ==
  /\ Selected
  /\ \E b1 \in 1..Len(DTE_BUCKETS) : \E b2 \in 1..Len(DTE_BUCKETS) :
       b1 # b2 /\ result.value[b1] # 0 /\ result.value[b1] = result.value[b2]
  /\ \E b \in 1..Len(DTE_BUCKETS) : \E j \in 1..Len(args.expiries) :
       /\ result.value[b] # 0 /\ j > result.value[b]
       /\ DteGap(j, b) = DteGap(result.value[b], b)
       /\ args.expiries[j].expiry # args.expiries[result.value[b]].expiry

\* the dte and the years to expiry each row was computed under: the App keeps
\* the dte in its rows and derives the years from it, yieldRows derives both
\* from the time left
RowDtes ==
  { <<r.dte, r.expiry, TyearsOf(r.dte)>> :
      r \in Range(topPuts.rows) \cup Range(topYields.callsTop) \cup Range(topYields.putsTop) }
  \cup
  { <<r.dte, r.expiry,
      Max(RDiv(ONE, YEAR_DAYS), RDiv((r.expiry - now) * ONE, YEAR_DAYS * DAY))>> :
      r \in Range(yieldRows) }

\* C20: every dte a ranking computation uses is ceil((expiry - now) / 1 day)
\* floored at 0: an integer >= 0, 0 for an expiry in the past, the next whole day
\* for an expiry any fraction of a day ahead; the years to expiry are never
\* below 1/365.
C20_DteIsCeil ==
  \A d \in RowDtes :
    /\ d[1] = Max(0, CeilDiv(d[2] - now, DAY))
    /\ d[1] >= 0
    /\ d[2] <= now => d[1] = 0
    /\ d[2] > now => d[1] * DAY >= d[2] - now /\ (d[1] - 1) * DAY < d[2] - now
    /\ d[3] >= RDiv(ONE, YEAR_DAYS)

\* the expiries the selection of section 4.4 picks among the expiries `times`:
\* for each bucket of DTE_BUCKETS, the first of the nearest ones
SelectedExpiries(times, t) ==
  LET expDte == ExpDte([i \in 1..Len(times) |-> [expiry |-> times[i]]], t)
  IN  { times[nearestByBucket(expDte, DTE_BUCKETS[b])] :
          b \in {c \in 1..Len(DTE_BUCKETS) : Len(times) > 0} }

SliceExpiries == [i \in 1..Len(expiries) |-> expiries[i].expiry]

\* C21: every ranked row belongs to an expiry the selection chose as nearest
\* for at least one DTE bucket; the contracts of the expiries chosen for no
\* bucket never appear in the ranked output.
C21_OnlySelectedExpiries ==
  /\ \A t \in 1..Len(AppTables) : \A r \in AppRows(t) :
       r.expiry \in SelectedExpiries(SliceExpiries, now)
  /\ \A r \in Range(yieldRows) :
       r.expiry \in SelectedExpiries(ExpiryKeys(chain, {}), now)

\* a contract carries an observed IV of its own
OwnIv(iv) == isFinite(iv) /\ iv > 0

\* the slices the selection picks, by index into expiries
SelectedSlices == {i \in 1..Len(expiries) : expiries[i].expiry \in SelectedExpiries(SliceExpiries, now)}

\* contract o of a selected slice qualifies for the ranked output when it is
\* evaluated at the IV fraction iv: bid and strike > 0, out of the money, and a
\* probability at or over the floor
QualifiesAtProb(p) == p # NULL /\ p # NaN /\ p * 100 >= MIN_PROB_OTM * ONE

QualifiesAt(o, dte, iv) ==
  /\ IsNumber(o.bid) /\ o.bid > 0 /\ IsNumber(o.strike) /\ o.strike > 0
  /\ (o.type = "call" => o.strike > uPrice) /\ (o.type = "put" => o.strike < uPrice)
  /\ UsableIv(iv)
  /\ QualifiesAtProb(probOTM_forward(o.type, uPrice, o.strike, iv, TyearsOf(dte),
                                     DEFAULT_RISK_FREE, DEFAULT_DIVIDEND_YIELD))

\* the IV section 4.2 interpolates for contract o from the points of its slice
InterpolatedFor(o, options) == interpolateIV_logMoneyness(uPrice, ivPoints(options), o.strike)

\* table t of the App holds contract o of the slice of that expiry, evaluated at iv
RankedAt(t, o, expiry, iv) == \E r \in AppRows(t) : r.o = o /\ r.expiry = expiry /\ r.ivFrac = iv

\* a contract of slice i that has no IV of its own, while the slice gives IV
\* points, and that qualifies at the interpolated IV
NeedsCurve(i, j, side) ==
  /\ expiries[i].options[j].type = side
  /\ ~OwnIv(expiries[i].options[j].iv)
  /\ Len(ivPoints(expiries[i].options)) > 0
  /\ Len(expiries[i].options) <= TOP_N
  /\ QualifiesAt(expiries[i].options[j], daysBetween(now, expiries[i].expiry),
                 InterpolatedFor(expiries[i].options[j], expiries[i].options))

Contracts == {<<i, j>> \in SelectedSlices \X (1..(2 * BigLen)) : j <= Len(expiries[i].options)}

\* C22: a contract with no observed IV of its own, in an expiry whose other
\* contracts give at least one valid IV point, is evaluated at the interpolated
\* IV and not skipped for lack of IV; a contract with an observed IV > 0 is
\* evaluated at that IV and never at an interpolated one.
C22_OwnIvElseCurve ==
  /\ \A t \in 1..Len(AppTables) : \A r \in AppRows(t) :
       r.ivFrac = IF OwnIv(r.o.iv) THEN RDiv(r.o.iv, 100)
                  ELSE InterpolatedFor(r.o, expiries[CHOOSE i \in 1..Len(expiries) :
                                                       expiries[i].expiry = r.expiry].options)
  /\ \A r \in Range(yieldRows) :
       r.ivUsed = IF OwnIv(r.leg.iv) THEN r.leg.iv
                  ELSE IF Len(ivPoints_dec(LegsOf(chain, r.expiry))) > 0
                       THEN interpolateIV_dec(quote.price, ivPoints_dec(LegsOf(chain, r.expiry)), r.strike)
                       ELSE r.ivUsed
  /\ ("topPuts" \in computed /\ uPrice # NULL) =>
       \A c \in Contracts : NeedsCurve(c[1], c[2], "put") =>
          RankedAt(1, expiries[c[1]].options[c[2]], expiries[c[1]].expiry,
                   InterpolatedFor(expiries[c[1]].options[c[2]], expiries[c[1]].options))
  /\ ("topYields" \in computed /\ uPrice # NULL) =>
       \A c \in Contracts :
          /\ NeedsCurve(c[1], c[2], "call") =>
               RankedAt(2, expiries[c[1]].options[c[2]], expiries[c[1]].expiry,
                        InterpolatedFor(expiries[c[1]].options[c[2]], expiries[c[1]].options))
          /\ NeedsCurve(c[1], c[2], "put") =>
               RankedAt(3, expiries[c[1]].options[c[2]], expiries[c[1]].expiry,
                        InterpolatedFor(expiries[c[1]].options[c[2]], expiries[c[1]].options))

\* the contracts of a curve call that carry a valid observation at strike K
ObservedAt(K) ==
  {i \in 1..Len(args.options) : ValidIvObs(args.options[i]) /\ args.options[i].strike = K}

ObservedStrikes == {args.options[i].strike : i \in {j \in 1..Len(args.options) : ValidIvObs(args.options[j])}}

\* strike K is observed on both sides: by one call and by one put
BothSides(K) ==
  /\ Cardinality(ObservedAt(K)) = 2
  /\ {args.options[i].type : i \in ObservedAt(K)} = Types

\* the mean of the IV fractions observed at strike K
MeanAt(K) ==
  LET obs == SelectSeq(args.options, LAMBDA o : ValidIvObs(o) /\ o.strike = K)
  IN  RDiv(SumSeq([i \in 1..Len(obs) |-> RDiv(obs[i].iv, 100)]), Len(obs))

\* C23: the IV curve of one expiry has exactly one point per distinct strike
\* with a valid observation; where the call and the put of a strike both carry
\* a valid IV the point is the arithmetic mean of the two, and that mean is the
\* IV interpolated at that strike.
C23_OnePointPerStrike ==
  CurveCalled =>
    /\ {p.K : p \in Range(CurvePoints)} = ObservedStrikes
    /\ \A i, j \in 1..Len(CurvePoints) : CurvePoints[i].K = CurvePoints[j].K => i = j
    /\ \A p \in Range(CurvePoints) :
         BothSides(p.K) =>
           /\ p.iv = MeanAt(p.K)
           /\ args.targetK = p.K => result.value = MeanAt(p.K)

\* two strikes of the request at the same distance from the center, a the lower
TiedStrikes(a, b) ==
  /\ a \in StrikesIn(mapped) /\ b \in StrikesIn(mapped)
  /\ StrikeNum(a) < StrikeNum(b)
  /\ Dist(a, filtered.center) = Dist(b, filtered.center)

\* C24: when two strikes are at equal absolute distance from the center and the
\* window has room for one of them only, the lower strike is the one kept: the
\* higher of two tied strikes is never kept without the lower.
C24_LowerOfTieKept ==
  filtered.done =>
    \A a \in StrikesIn(mapped) : \A b \in StrikesIn(mapped) :
      (TiedStrikes(a, b) /\ b \in StrikesIn(filtered.options)) => a \in StrikesIn(filtered.options)

\* the Polygon window of 50 cut between two tied strikes
C24_TieAtTheEdge ==
  /\ filtered.done /\ filtered.handler = "polygon"
  /\ \E a \in StrikesIn(mapped) : \E b \in StrikesIn(mapped) :
       /\ TiedStrikes(a, b)
       /\ a \in StrikesIn(filtered.options)
       /\ b \notin StrikesIn(filtered.options)

\* the contracts of j.results under one expiration date, as the response gives them
ContractsOf(rs, exp) ==
  LET own == SelectSeq(rs, LAMBDA o : o.exp = exp)
  IN  [i \in 1..Len(own) |-> Mapped(own[i].strike, own[i].type)]

DatesOf(rs) == {rs[i].exp : i \in 1..Len(rs)}

\* the strikes the response keeps for one expiration date
KeptOf(slices, exp) ==
  UNION {StrikesIn(slices[i].options) : i \in {j \in 1..Len(slices) : slices[j].expiry = exp}}

\* C25: calls and puts of one expiry are filtered by the same kept-strike set:
\* a contract is in its slice exactly when its strike is in the kept set,
\* whatever its side; and the kept set of an expiry does not depend on the
\* contracts of the other expiries of the snapshot.
C25_SharedKeptSet ==
  served.done =>
    /\ {served.expiries[i].expiry : i \in 1..Len(served.expiries)} = DatesOf(results)
    /\ \A i, j \in 1..Len(served.expiries) :
         served.expiries[i].expiry = served.expiries[j].expiry => i = j
    /\ \A i \in 1..Len(served.expiries) :
         /\ served.expiries[i].options =
              SelectSeq(ContractsOf(results, served.expiries[i].expiry),
                        LAMBDA o : o.strike \in StrikesIn(served.expiries[i].options))
         /\ StrikesIn(served.expiries[i].options) =
              KeptOf(expiriesOf(SelectSeq(results, LAMBDA o : o.exp = served.expiries[i].expiry),
                                underlier),
                     served.expiries[i].expiry)

\* a snapshot of two expiries: the window of one drops strikes and keeps calls
\* and puts, and the other holds a strike the first does not keep
C25_TwoExpiries ==
  /\ served.done
  /\ Len(served.expiries) = 2
  /\ \E i, j \in 1..2 :
       /\ i # j
       /\ StrikesIn(ContractsOf(results, served.expiries[i].expiry))
            \ StrikesIn(served.expiries[i].options) # {}
       /\ {served.expiries[i].options[k].type : k \in 1..Len(served.expiries[i].options)} = Types
       /\ StrikesIn(served.expiries[j].options) \ StrikesIn(served.expiries[i].options) # {}

\* C26: the contracts a handler returns for a slice are ordered by ascending
\* strike, whatever the order the slice's contracts came in.
C26_AscendingStrikes ==
  filtered.done =>
    \A i \in 1..Len(filtered.options) : \A j \in 1..Len(filtered.options) :
      i < j => StrikeNum(filtered.options[i].strike) <= StrikeNum(filtered.options[j].strike)

\* C27: at most one call of runFlow is in flight at any time, and loading is
\* true for as long as one is: no second flow starts, by a button or by the
\* Enter key, while a first awaits its quote or options response, and loading
\* is false only when no flow is in flight.
C27_OneFlowLoading ==
  /\ Len(flows) <= 1
  /\ Len(flows) > 0 => loading

\* the yields panel or the chain view is rendered: view === "yields" && topPuts
\* && uPrice != null (topPuts is null without expiries), or view === "chain" &&
\* expiries.length > 0
ViewShown ==
  \/ view = "yields" /\ Len(expiries) > 0 /\ uPrice # NULL
  \/ view = "chain" /\ Len(expiries) > 0

\* the quote price is rendered: price !== null && !err
PriceShown == price # NULL /\ err = ""

\* C28: once the flows started have ended, succeeded or failed at either step,
\* a displayed yields or chain view shows expiries and an underlier price that
\* were fetched for the same symbol as the displayed quote price.
C28_OneSymbolShown ==
  (flows = <<>> /\ ViewShown /\ PriceShown) =>
    \E s \in Symbols :
      /\ price = PriceOf(s)
      /\ expiries = ChainOf(s)
      /\ uPrice \in {NULL, PriceOf(s)}

RowsCalled == result.done /\ args.fn = "rows"

\* the contracts of the active expiry of a rows call; none when the index is
\* out of range
ActiveOptions ==
  IF args.activeIdx + 1 \in 1..Len(args.expiries)
  THEN args.expiries[args.activeIdx + 1].options ELSE <<>>

\* a ladder entry is null, or a contract of the active expiry of that side and strike
EntryOk(e, side, strike) ==
  \/ e = <<>>
  \/ /\ Len(e) = 1
     /\ e[1] \in Range(ActiveOptions)
     /\ e[1].type = side /\ e[1].strike = strike

\* C29: the ladder of the active expiry has exactly one row per distinct strike
\* of that expiry's contracts, in strictly ascending strike order; in each row
\* the call entry is null or a call of that strike, the put entry is null or a
\* put of that strike, and they are never both null; an active index out of
\* range gives an empty ladder.
C29_LadderRows ==
  RowsCalled =>
    /\ {result.value[i].strike : i \in 1..Len(result.value)} = StrikesIn(ActiveOptions)
    /\ \A i \in 1..Len(result.value) : \A j \in 1..Len(result.value) :
         i < j => result.value[i].strike < result.value[j].strike
    /\ \A i \in 1..Len(result.value) :
         /\ EntryOk(result.value[i].call, "call", result.value[i].strike)
         /\ EntryOk(result.value[i].put, "put", result.value[i].strike)
         /\ ~(result.value[i].call = <<>> /\ result.value[i].put = <<>>)
    /\ args.activeIdx + 1 \notin 1..Len(args.expiries) => result.value = <<>>

\* the ladder of a second expiry whose contracts came with descending strikes:
\* two rows, one with a call and a put, one with a single side
C29_TwoRungs ==
  /\ RowsCalled
  /\ args.activeIdx = 1
  /\ Len(ActiveOptions) = 3
  /\ ActiveOptions[1].strike > ActiveOptions[3].strike
  /\ Len(result.value) = 2
  /\ \E i \in 1..2 : result.value[i].call # <<>> /\ result.value[i].put # <<>>
  /\ \E i \in 1..2 : result.value[i].call = <<>> \/ result.value[i].put = <<>>

====
